---------------------------- MODULE Spec2Model ----------------------------
(***************************************************************************)
(* A model of the EasyOCR GUI's tool-invocation core (gui/src/ocr.rs):     *)
(* command resolution, argument building, the recognition run, the output  *)
(* parser, and the language / home-directory normalisers; and of the       *)
(* worker threads and the GUI state that polls them (gui/src/app.rs).      *)
(*                                                                         *)
(* Rust strings are TLA+ strings; positions are 1-based (Rust's byte       *)
(* offset + 1).  Option<T> is a record: None, or Some(v).  An f32 is a     *)
(* fixed-point integer counting 1/Scale units (exact for the decimals the  *)
(* model draws); the two non-ASCII separators are written with stand-in    *)
(* characters because a TLA+ string literal is ASCII.                      *)
(***************************************************************************)
EXTENDS Integers, Sequences, FiniteSets, TLC

VARIABLES
    \* ---- resolve_easyocr_cmd / check_easyocr_available / run_ocr_sync
    settings,     \* the Settings value the operation was called with
    image_path,   \* the image path the run was called with
    home,         \* std::env::var("HOME") as the process sees it
    env,          \* the OS: what `<program> <args> --help` does, per command
    op,           \* which entry point is executing: "check" | "run" | "none"
    pc,           \* position inside the executing function
    probes,       \* the probe_cmd calls made so far, in order
    resolved,     \* resolve_easyocr_cmd's return value (None until it returns Some)
    argv,         \* the argument vector handed to Command (<<>> before spawn)
    output,       \* what cmd.output() returned
    result,       \* the OcrResult (run) or bool (check) returned; None before
    \* ---- parse_easyocr_output
    p_src,        \* the tool-side records / noise the stdout text was printed from
    p_output,     \* the stdout text handed to the parser
    p_idx,        \* index of the next raw line of the for loop
    p_lines,      \* the Vec<OcrLine> accumulated so far
    \* ---- parse_languages
    l_raw,        \* the input string
    l_out,        \* the returned Vec<String> (None before the call)
    \* ---- expand_home_dir
    h_path,       \* the input path
    h_out,        \* the returned String (None before the call)
    \* ---- EasyOcrApp (app.rs) and the workers it starts
    app_settings,      \* self.settings
    app_image,         \* self.image: None, or Some(path of the loaded image)
    ocr_state,         \* self.ocr_state: Idle | Running(rx) | Done | Error(message)
    ocr_result_text,   \* self.ocr_result_text
    setup_status,      \* self.setup_status: "Checking" | "Ready" | "Missing"
    setup_rx,          \* self.setup_rx: None, or Some(receiver)
    show_setup_dialog, \* self.show_setup_dialog
    workers,           \* the threads spawned so far, in the order of their spawn
    channels,          \* channels[w]: the mpsc channel created for worker w
    tmp_png            \* the image held by <temp dir>/easyocr_gui_tmp.png (0: no file)

resolveVars == <<settings, image_path, home, env, op, pc, probes, resolved, argv, output, result>>
parseVars == <<p_src, p_output, p_idx, p_lines>>
langVars == <<l_raw, l_out>>
homeVars == <<h_path, h_out>>
appVars == <<app_settings, app_image, ocr_state, ocr_result_text, setup_status, setup_rx,
             show_setup_dialog, workers, channels, tmp_png>>
vars == <<resolveVars, parseVars, langVars, homeVars, appVars>>

None == [some |-> FALSE]
Some(v) == [some |-> TRUE, val |-> v]

(***************************************************************************)
(* Bounds of the model.                                                    *)
(***************************************************************************)
MaxLangLen == 3
MaxPathLen == 3
MaxOutLines == 2

(***************************************************************************)
(* str primitives of the Rust standard library, as the code uses them.     *)
(***************************************************************************)
CharAt(s, i) == SubSeq(s, i, i)

\* char::is_whitespace, restricted to the ASCII white space the model draws.
WhiteSpace == {" ", "\t", "\n", "\r"}

StartsWith(s, p) == Len(s) >= Len(p) /\ SubSeq(s, 1, Len(p)) = p

EndsWith(s, p) == Len(s) >= Len(p) /\ SubSeq(s, Len(s) - Len(p) + 1, Len(s)) = p

\* str::strip_prefix / str::strip_suffix: Option<&str>.
strip_prefix(s, p) == IF StartsWith(s, p) THEN Some(SubSeq(s, Len(p) + 1, Len(s))) ELSE None

strip_suffix(s, p) == IF EndsWith(s, p) THEN Some(SubSeq(s, 1, Len(s) - Len(p))) ELSE None

RECURSIVE trim_start_matches(_, _)
trim_start_matches(s, cs) ==
    IF Len(s) > 0 /\ CharAt(s, 1) \in cs THEN trim_start_matches(Tail(s), cs) ELSE s

RECURSIVE trim_end_matches(_, _)
trim_end_matches(s, cs) ==
    IF Len(s) > 0 /\ CharAt(s, Len(s)) \in cs
    THEN trim_end_matches(SubSeq(s, 1, Len(s) - 1), cs)
    ELSE s

\* str::trim
trim(s) == trim_end_matches(trim_start_matches(s, WhiteSpace), WhiteSpace)

\* str::find(&str): the position of the first match, 0 for None.
RECURSIVE FindFrom(_, _, _)
FindFrom(s, pat, i) ==
    IF i + Len(pat) - 1 > Len(s) THEN 0
    ELSE IF SubSeq(s, i, i + Len(pat) - 1) = pat THEN i
    ELSE FindFrom(s, pat, i + 1)

find(s, pat) == FindFrom(s, pat, 1)

\* str::rfind(char): the position of the last match, 0 for None.
RECURSIVE RFindFrom(_, _, _)
RFindFrom(s, c, i) ==
    IF i = 0 THEN 0
    ELSE IF CharAt(s, i) = c THEN i
    ELSE RFindFrom(s, c, i - 1)

rfind(s, c) == RFindFrom(s, c, Len(s))

\* str::split([char; N]): every piece between separators, empty pieces included.
RECURSIVE SplitChars(_, _, _)
SplitChars(s, seps, cur) ==
    IF Len(s) = 0 THEN <<cur>>
    ELSE IF CharAt(s, 1) \in seps THEN <<cur>> \o SplitChars(Tail(s), seps, "")
    ELSE SplitChars(Tail(s), seps, cur \o CharAt(s, 1))

split_chars(s, seps) == SplitChars(s, seps, "")

\* str::split(&str)
RECURSIVE split_str(_, _)
split_str(s, pat) ==
    LET i == find(s, pat)
    IN  IF i = 0 THEN <<s>>
        ELSE <<SubSeq(s, 1, i - 1)>> \o split_str(SubSeq(s, i + Len(pat), Len(s)), pat)

\* str::lines: split at "\n", a trailing "\r" of a line removed, no final
\* empty line.
RECURSIVE lines(_)
lines(s) ==
    IF Len(s) = 0 THEN <<>>
    ELSE LET i == find(s, "\n")
             first == IF i = 0 THEN s ELSE SubSeq(s, 1, i - 1)
             rest == IF i = 0 THEN "" ELSE SubSeq(s, i + 1, Len(s))
         IN  <<IF i # 0 /\ EndsWith(first, "\r") THEN SubSeq(first, 1, Len(first) - 1) ELSE first>>
             \o lines(rest)

\* Iterator helpers.
RECURSIVE MapTrim(_)
MapTrim(ss) == IF ss = <<>> THEN <<>> ELSE <<trim(Head(ss))>> \o MapTrim(Tail(ss))

RECURSIVE FilterNonEmpty(_)
FilterNonEmpty(ss) ==
    IF ss = <<>> THEN <<>>
    ELSE (IF Head(ss) = "" THEN <<>> ELSE <<Head(ss)>>) \o FilterNonEmpty(Tail(ss))

RECURSIVE Concat(_)
Concat(ss) == IF ss = <<>> THEN "" ELSE Head(ss) \o Concat(Tail(ss))

\* All strings of length at most n over the characters cs.
RECURSIVE StringsUpTo(_, _)
StringsUpTo(cs, n) ==
    IF n = 0 THEN {""}
    ELSE LET shorter == StringsUpTo(cs, n - 1)
         IN  shorter \cup {s \o c : s \in shorter, c \in cs}

(***************************************************************************)
(* parse_languages (ocr.rs 318-331)                                        *)
(***************************************************************************)
\* U+FF0C FULLWIDTH COMMA and U+FF1B FULLWIDTH SEMICOLON.
FullWidthComma == "^"
FullWidthSemicolon == "|"

LangSeparators == {",", FullWidthComma, " ", ";", FullWidthSemicolon}

DefaultLanguages == <<"ch_sim", "en">>

\* A faulty variant: the substitution of the default list (lines 326-327) left out.
parse_languages_NoDefault(raw) ==
    FilterNonEmpty(MapTrim(split_chars(raw, LangSeparators)))

\* A faulty variant: a code is kept only the first time it occurs.
RECURSIVE FirstOccurrences(_, _)
FirstOccurrences(ss, seen) ==
    IF ss = <<>> THEN <<>>
    ELSE (IF Head(ss) \in seen THEN <<>> ELSE <<Head(ss)>>)
         \o FirstOccurrences(Tail(ss), seen \cup {Head(ss)})

parse_languages_Unique(raw) ==
    LET langs == FirstOccurrences(FilterNonEmpty(MapTrim(split_chars(raw, LangSeparators))), {})
    IN  IF langs = <<>> THEN DefaultLanguages ELSE langs

parse_languages(raw) ==
    LET langs == FilterNonEmpty(MapTrim(split_chars(raw, LangSeparators)))
    IN  IF langs = <<>> THEN DefaultLanguages ELSE langs

(***************************************************************************)
(* expand_home_dir (ocr.rs 333-343).  hm is std::env::var("HOME"): Some of *)
(* the value, or None when the variable is unset (or not valid Unicode).   *)
(***************************************************************************)
\* A faulty variant: every leading "~" expanded, "~user" included.
expand_home_dir_AnyTilde(path, hm) ==
    LET rest == strip_prefix(path, "~")
    IN  IF rest.some /\ hm.some THEN hm.val \o rest.val ELSE path

expand_home_dir(path, hm) ==
    IF path = "~" THEN (IF hm.some THEN hm.val ELSE path)
    ELSE LET rest == strip_prefix(path, "~/")
         IN  IF rest.some /\ hm.some THEN hm.val \o "/" \o rest.val ELSE path

(***************************************************************************)
(* Settings (settings.rs 46-110).  f32 fields count 1/Scale units.         *)
(***************************************************************************)
\* One unit of an f32 is 1/Scale: the four decimals of "{:.4}".
Scale == 10000

\* Decoder::as_str
decoder_as_str(d) ==
    CASE d = "Greedy" -> "greedy"
      [] d = "BeamSearch" -> "beamsearch"
      [] d = "WordBeamSearch" -> "wordbeamsearch"

\* impl Default for Settings
DefaultSettings ==
    [languages |-> "en", gpu |-> FALSE, workers |-> 0, decoder |-> "Greedy",
     beam_width |-> 5, batch_size |-> 1, min_size |-> 20,
     text_threshold |-> 7000, low_text |-> 4000, link_threshold |-> 4000,
     contrast_ths |-> 1000, adjust_contrast |-> 5000,
     paragraph |-> FALSE, quantize |-> TRUE, add_margin |-> 1000,
     model_storage_directory |-> "", easyocr_exe |-> ""]

(***************************************************************************)
(* resolve_easyocr_cmd and probe_cmd (ocr.rs 30-82)                        *)
(***************************************************************************)
NoArgs == <<>>
ModuleArgs == <<"-m", "easyocr.cli">>

Cmd(program, args) == [program |-> program, args |-> args]

\* What `<program> <args> --help` does: it exits with status zero, it exits
\* with another status, or the program cannot be spawned.
ProbeOutcomes == {"exit0", "exit1", "nospawn"}

\* Command::new(program).args(extra_args).arg("--help").status()
\*     .map(|s| s.success()).unwrap_or(false)
probe_cmd(program, extra_args, e) ==
    LET status == e[Cmd(program, extra_args)]
    IN  IF status = "nospawn" THEN FALSE ELSE status = "exit0"

\* A faulty variant: the interpreters of line 53 in the other order.
SiteCommand_PythonBeforePython3(site, configured_exe) ==
    CASE site = "cfg_direct" -> Cmd(configured_exe, NoArgs)
      [] site = "cfg_module" -> Cmd(configured_exe, ModuleArgs)
      [] site = "path_easyocr" -> Cmd("easyocr", NoArgs)
      [] site = "path_python3" -> Cmd("python", ModuleArgs)
      [] site = "path_python" -> Cmd("python3", ModuleArgs)

\* The probe each site of resolve_easyocr_cmd makes.
SiteCommand(site, configured_exe) ==
    CASE site = "cfg_direct" -> Cmd(configured_exe, NoArgs)
      [] site = "cfg_module" -> Cmd(configured_exe, ModuleArgs)
      [] site = "path_easyocr" -> Cmd("easyocr", NoArgs)
      [] site = "path_python3" -> Cmd("python3", ModuleArgs)
      [] site = "path_python" -> Cmd("python", ModuleArgs)

\* A faulty variant: the `return None` of line 43 left out.
OnProbeFail_FallsThrough(site) ==
    CASE site = "cfg_direct" -> "cfg_module"
      [] site = "cfg_module" -> "path_easyocr"
      [] site = "path_easyocr" -> "path_python3"
      [] site = "path_python3" -> "path_python"
      [] site = "path_python" -> "unresolved"

\* Where control goes when the probe at a site fails.
OnProbeFail(site) ==
    CASE site = "cfg_direct" -> "cfg_module"
      [] site = "cfg_module" -> "unresolved"
      [] site = "path_easyocr" -> "path_python3"
      [] site = "path_python3" -> "path_python"
      [] site = "path_python" -> "unresolved"

\* The first probe site: `if !configured_exe.is_empty()`.
FirstSite(configured_exe) ==
    IF configured_exe # "" THEN "cfg_direct" ELSE "path_easyocr"

ResolveEnter ==
    /\ pc = "start"
    /\ pc' = FirstSite(settings.easyocr_exe)
    /\ UNCHANGED <<settings, image_path, home, env, op, probes, resolved, argv, output, result>>
    /\ UNCHANGED <<parseVars, langVars, homeVars, appVars>>

\* One probe: log it, return Some on success, go on to the next site on failure.
Probed(site) ==
    LET c == SiteCommand(site, settings.easyocr_exe)
    IN  /\ probes' = Append(probes, c)
        /\ IF probe_cmd(c.program, c.args, env)
           THEN resolved' = Some(c) /\ pc' = "resolved"
           ELSE resolved' = None /\ pc' = OnProbeFail(site)

\* Line 34
ProbeConfiguredDirect ==
    /\ pc = "cfg_direct"
    /\ Probed("cfg_direct")
    /\ UNCHANGED <<settings, image_path, home, env, op, argv, output, result>>
    /\ UNCHANGED <<parseVars, langVars, homeVars, appVars>>

\* Line 37
ProbeConfiguredModule ==
    /\ pc = "cfg_module"
    /\ Probed("cfg_module")
    /\ UNCHANGED <<settings, image_path, home, env, op, argv, output, result>>
    /\ UNCHANGED <<parseVars, langVars, homeVars, appVars>>

\* Line 47
ProbePathEasyocr ==
    /\ pc = "path_easyocr"
    /\ Probed("path_easyocr")
    /\ UNCHANGED <<settings, image_path, home, env, op, argv, output, result>>
    /\ UNCHANGED <<parseVars, langVars, homeVars, appVars>>

\* Line 54, first iteration
ProbePathPython3 ==
    /\ pc = "path_python3"
    /\ Probed("path_python3")
    /\ UNCHANGED <<settings, image_path, home, env, op, argv, output, result>>
    /\ UNCHANGED <<parseVars, langVars, homeVars, appVars>>

\* Line 54, second iteration
ProbePathPython ==
    /\ pc = "path_python"
    /\ Probed("path_python")
    /\ UNCHANGED <<settings, image_path, home, env, op, argv, output, result>>
    /\ UNCHANGED <<parseVars, langVars, homeVars, appVars>>

\* check_easyocr_available: resolve_easyocr_cmd(exe).is_some()
CheckReturn ==
    /\ op = "check"
    /\ pc \in {"resolved", "unresolved"}
    /\ result' = Some(resolved.some)
    /\ pc' = "done"
    /\ UNCHANGED <<settings, image_path, home, env, op, probes, resolved, argv, output>>
    /\ UNCHANGED <<parseVars, langVars, homeVars, appVars>>

(***************************************************************************)
(* f32 parsing (str::parse::<f32>), on the decimal grammar                 *)
(*     [+-]? digits* ( "." digits* )?   with at least one digit.           *)
(* The model draws no exponent, "inf" or "nan" token, and at most four     *)
(* fraction digits, so the fixed-point value is exact.                     *)
(***************************************************************************)
Digits == {"0", "1", "2", "3", "4", "5", "6", "7", "8", "9"}

DigitVal(c) ==
    CASE c = "0" -> 0 [] c = "1" -> 1 [] c = "2" -> 2 [] c = "3" -> 3 [] c = "4" -> 4
      [] c = "5" -> 5 [] c = "6" -> 6 [] c = "7" -> 7 [] c = "8" -> 8 [] c = "9" -> 9

AllDigits(s) == \A i \in 1..Len(s) : CharAt(s, i) \in Digits

RECURSIVE DigitsVal(_, _)
DigitsVal(s, acc) ==
    IF Len(s) = 0 THEN acc ELSE DigitsVal(Tail(s), 10 * acc + DigitVal(CharAt(s, 1)))

RECURSIVE Pow10(_)
Pow10(n) == IF n = 0 THEN 1 ELSE 10 * Pow10(n - 1)

\* The number of fraction digits one unit of Scale holds.
FracDigits == 4

\* The value of the fraction digits fp, in 1/Scale units.
FracVal(fp) ==
    IF Len(fp) <= FracDigits
    THEN DigitsVal(fp, 0) * Pow10(FracDigits - Len(fp))
    ELSE DigitsVal(SubSeq(fp, 1, FracDigits), 0)

parse_f32(s) ==
    LET signed == Len(s) > 0 /\ CharAt(s, 1) \in {"+", "-"}
        body == IF signed THEN Tail(s) ELSE s
        dot == find(body, ".")
        ip == IF dot = 0 THEN body ELSE SubSeq(body, 1, dot - 1)
        fp == IF dot = 0 THEN "" ELSE SubSeq(body, dot + 1, Len(body))
        mag == DigitsVal(ip, 0) * Scale + FracVal(fp)
    IN  IF AllDigits(ip) /\ AllDigits(fp) /\ Len(ip) + Len(fp) > 0
        THEN Some(IF signed /\ CharAt(s, 1) = "-" THEN 0 - mag ELSE mag)
        ELSE None

(***************************************************************************)
(* parse_bbox (ocr.rs 298-316)                                             *)
(***************************************************************************)
\* One "x, y" point: Option<[f32; 2]>.
parse_point(p) ==
    LET coords == split_chars(p, {","})
    IN  IF Len(coords) # 2 THEN None
        ELSE LET x == parse_f32(trim(coords[1]))
                 y == parse_f32(trim(coords[2]))
             IN  IF x.some /\ y.some THEN Some(<<x.val, y.val>>) ELSE None

\* A faulty variant: points after the fourth are ignored.
parse_bbox_FirstFourPoints(s) ==
    LET a == strip_prefix(s, "[[")
        inner == IF a.some THEN strip_suffix(a.val, "]]") ELSE None
    IN  IF ~inner.some THEN None
        ELSE LET points == split_str(inner.val, "], [")
             IN  IF Len(points) < 4 THEN None
                 ELSE LET pts == [i \in 1..4 |-> parse_point(points[i])]
                      IN  IF \A i \in 1..4 : pts[i].some
                          THEN Some([i \in 1..4 |-> pts[i].val])
                          ELSE None

parse_bbox(s) ==
    LET a == strip_prefix(s, "[[")
        inner == IF a.some THEN strip_suffix(a.val, "]]") ELSE None
    IN  IF ~inner.some THEN None
        ELSE LET points == split_str(inner.val, "], [")
             IN  IF Len(points) # 4 THEN None
                 ELSE LET pts == [i \in 1..4 |-> parse_point(points[i])]
                      IN  IF \A i \in 1..4 : pts[i].some
                          THEN Some([i \in 1..4 |-> pts[i].val])
                          ELSE None

(***************************************************************************)
(* parse_line (ocr.rs 250-296)                                             *)
(***************************************************************************)
QuoteChars == {"'", "\""}

\* The confidence of a record whose line carries none (the literal 0.0).
NoConfidence == 0

\* Lines 253-260: the line without its outer "(...)" or "[...]".
strip_outer(s) ==
    LET a == strip_prefix(s, "(")
        b == IF a.some THEN strip_suffix(a.val, ")") ELSE None
        c == strip_prefix(s, "[")
        d == IF c.some THEN strip_suffix(c.val, "]") ELSE None
    IN  IF b.some THEN b ELSE d

\* Lines 271-283: (text_part, confidence) of the remainder after the bbox.
split_confidence(rest) ==
    LET last_comma == rfind(rest, ",")
    IN  IF last_comma # 0
        THEN LET conf == parse_f32(trim(SubSeq(rest, last_comma + 1, Len(rest))))
             IN  IF conf.some
                 THEN <<trim(SubSeq(rest, 1, last_comma - 1)), conf.val>>
                 ELSE <<rest, NoConfidence>>
        ELSE <<rest, NoConfidence>>

\* Lines 285-289: the text without its quotes.
strip_quotes(text_part) ==
    trim_end_matches(trim_start_matches(text_part, QuoteChars), QuoteChars)

parse_line(line) ==
    LET outer == strip_outer(trim(line))
    IN  IF ~outer.some THEN None
        ELSE LET s == outer.val
                 bracket_end == find(s, "]]")
             IN  IF bracket_end = 0 THEN None
                 ELSE LET bbox_str == SubSeq(s, 1, bracket_end + 1)
                          after == strip_prefix(trim(SubSeq(s, bracket_end + 2, Len(s))), ",")
                      IN  IF ~after.some THEN None
                          ELSE LET rest == trim(after.val)
                                   bbox == parse_bbox(bbox_str)
                                   tc == split_confidence(rest)
                               IN  IF ~bbox.some THEN None
                                   ELSE Some([bbox |-> bbox.val,
                                              text |-> strip_quotes(tc[1]),
                                              confidence |-> tc[2]])

(***************************************************************************)
(* parse_easyocr_output (ocr.rs 231-248)                                   *)
(***************************************************************************)
\* A faulty variant: a record equal to an earlier one is not pushed again.
parse_step_Dedup(acc, raw_line) ==
    LET t == trim(raw_line)
    IN  IF t = "" THEN acc
        ELSE LET parsed == parse_line(t)
             IN  IF parsed.some /\ \A i \in 1..Len(acc) : acc[i] # parsed.val
                 THEN Append(acc, parsed.val)
                 ELSE acc

\* One iteration of the for loop: acc after raw_line.
parse_step(acc, raw_line) ==
    LET t == trim(raw_line)
    IN  IF t = "" THEN acc
        ELSE LET parsed == parse_line(t)
             IN  IF parsed.some THEN Append(acc, parsed.val) ELSE acc

RECURSIVE ParseFrom(_, _)
ParseFrom(raw_lines, acc) ==
    IF raw_lines = <<>> THEN acc
    ELSE ParseFrom(Tail(raw_lines), parse_step(acc, Head(raw_lines)))

parse_easyocr_output(out) == ParseFrom(lines(out), <<>>)

(***************************************************************************)
(* The tool's side of the stdout grammar: what the EasyOCR CLI prints for  *)
(* a result (Python's repr of the tuple or list) and the other lines that  *)
(* reach stdout.  The parser is checked against the records printed, not   *)
(* against itself.                                                         *)
(***************************************************************************)
Contains(s, c) == find(s, c) # 0

RECURSIVE PyEscape(_)
PyEscape(t) ==
    IF Len(t) = 0 THEN ""
    ELSE (IF CharAt(t, 1) \in {"'", "\\"} THEN "\\" \o CharAt(t, 1) ELSE CharAt(t, 1))
         \o PyEscape(Tail(t))

\* repr(str): single quotes, unless the text holds ' and no ".
PyStr(t) ==
    IF Contains(t, "'") /\ ~Contains(t, "\"")
    THEN "\"" \o t \o "\""
    ELSE "'" \o PyEscape(t) \o "'"

Pad4(n) ==
    IF n < 10 THEN "000" \o ToString(n)
    ELSE IF n < 100 THEN "00" \o ToString(n)
    ELSE IF n < 1000 THEN "0" \o ToString(n)
    ELSE ToString(n)

\* repr(float) of a value of at most four decimals: "0.5", "1.0", "0.9543".
PyFloat(v) ==
    LET frac == trim_end_matches(Pad4(v % Scale), {"0"})
    IN  ToString(v \div Scale) \o "." \o (IF frac = "" THEN "0" ELSE frac)

PyPoint(pt) == "[" \o ToString(pt[1]) \o ", " \o ToString(pt[2]) \o "]"

\* repr of the four corner points, integer pixel coordinates.
PyBBox(b) ==
    "[" \o PyPoint(b[1]) \o ", " \o PyPoint(b[2]) \o ", " \o PyPoint(b[3]) \o ", "
        \o PyPoint(b[4]) \o "]"

\* The line printed for one item of the tool's output.
PyLine(item) ==
    CASE item.kind = "std" ->
           "(" \o PyBBox(item.bbox) \o ", " \o PyStr(item.text) \o ", " \o PyFloat(item.conf) \o ")"
      [] item.kind = "para" ->
           "[" \o PyBBox(item.bbox) \o ", " \o PyStr(item.text) \o "]"
      [] item.kind = "noise" -> item.raw

RECURSIVE PyPrint(_)
PyPrint(items) ==
    IF items = <<>> THEN "" ELSE PyLine(Head(items)) \o "\n" \o PyPrint(Tail(items))

\* The f32 the parser holds for an integer pixel coordinate.
Pixels(b) == [i \in 1..4 |-> <<b[i][1] * Scale, b[i][2] * Scale>>]

IsRecord(item) == item.kind \in {"std", "para"}

RECURSIVE Records(_)
Records(items) ==
    IF items = <<>> THEN <<>>
    ELSE (IF IsRecord(Head(items)) THEN <<Head(items)>> ELSE <<>>) \o Records(Tail(items))

\* ---- the items the model draws
BoxA == <<<<70, 12>>, <<268, 12>>, <<268, 48>>, <<70, 48>>>>
BoxB == <<<<10, 20>>, <<100, 20>>, <<100, 50>>, <<10, 50>>>>

Texts == {"Hello World", "a, 5", "it's", "\"q\""}

\* Confidences in [0,1]: 0.9543 and 0.5.
Confs == {9543, 5000}

StdItems == {[kind |-> "std", bbox |-> b, text |-> t, conf |-> c] :
                b \in {BoxA, BoxB}, t \in Texts, c \in Confs}

ParaItems == {[kind |-> "para", bbox |-> BoxB, text |-> t] : t \in Texts}

\* Lines that are no record: blank, a log line, a bbox of three points, a
\* coordinate that is no number, a list that is no record.
NoiseLines ==
    {"", "   ",
     "Using CPU. Note: This module is much faster with a GPU.",
     "([[1, 2], [3, 2], [3, 4]], 'x', 0.5)",
     "([[a, 2], [3, 2], [3, 4], [1, 4]], 'x', 0.5)",
     "[1, 2]"}

NoiseItems == {[kind |-> "noise", raw |-> r] : r \in NoiseLines}

\* Record lines whose last field is a number outside [0,1]: 5.0 and -1.0.
OutOfRangeConfs == {50000, 0 - 10000}

OutOfRangeItems == {[kind |-> "std", bbox |-> BoxA, text |-> "Hello World", conf |-> c] :
                       c \in OutOfRangeConfs}

Items == StdItems \cup ParaItems \cup NoiseItems \cup OutOfRangeItems

RECURSIVE SeqsUpTo(_, _)
SeqsUpTo(S, n) ==
    IF n = 0 THEN {<<>>}
    ELSE LET shorter == SeqsUpTo(S, n - 1)
         IN  shorter \cup {Append(q, x) : q \in shorter, x \in S}

(***************************************************************************)
(* Idle values of the state each specification leaves alone.               *)
(***************************************************************************)
RunIdle ==
    /\ settings = DefaultSettings /\ image_path = ""
    /\ env = <<>> /\ op = "none" /\ pc = "idle" /\ probes = <<>>
    /\ resolved = None /\ argv = <<>> /\ output = None /\ result = None

ResolveIdle == RunIdle /\ home = None

ParseIdle == p_src = <<>> /\ p_output = "" /\ p_idx = 0 /\ p_lines = <<>>

LangIdle == l_raw = "" /\ l_out = None

HomeIdle == h_path = "" /\ h_out = None

IdleState == [tag |-> "Idle", rx |-> 0, err |-> ""]

AppIdle ==
    /\ app_settings = DefaultSettings /\ app_image = None
    /\ ocr_state = IdleState /\ ocr_result_text = ""
    /\ setup_status = "Ready" /\ setup_rx = None /\ show_setup_dialog = FALSE
    /\ workers = <<>> /\ channels = <<>> /\ tmp_png = 0

(***************************************************************************)
(* SpecParse: parse_easyocr_output, one loop iteration per step, on every  *)
(* output of at most MaxOutLines lines.                                    *)
(***************************************************************************)
InitParse ==
    /\ p_src \in SeqsUpTo(Items, MaxOutLines)
    /\ p_output = PyPrint(p_src)
    /\ p_idx = 1
    /\ p_lines = <<>>
    /\ ResolveIdle /\ LangIdle /\ HomeIdle /\ AppIdle

ParseNextLine ==
    /\ p_idx >= 1
    /\ p_idx <= Len(lines(p_output))
    /\ p_lines' = parse_step(p_lines, lines(p_output)[p_idx])
    /\ p_idx' = p_idx + 1
    /\ UNCHANGED <<p_src, p_output, resolveVars, langVars, homeVars, appVars>>

NextParse == ParseNextLine

SpecParse == InitParse /\ [][NextParse]_vars

ParseDone == p_idx > Len(lines(p_output))

(***************************************************************************)
(* SpecLine: parse_easyocr_output on lines written field by field: either  *)
(* outer delimiter, a bbox of any number of points and coordinates, a text *)
(* field with its quotes as written, and a last field that is a number or  *)
(* is absent; alone, or followed by a line the tool printed.               *)
(***************************************************************************)
\* A coordinate as written, and its f32 value when it is a number.
Num(n) == [tok |-> ToString(n), num |-> TRUE, val |-> n * Scale]
Junk(s) == [tok |-> s, num |-> FALSE, val |-> 0]

FourPoints == <<<<Num(70), Num(12)>>, <<Num(268), Num(12)>>,
                <<Num(268), Num(48)>>, <<Num(70), Num(48)>>>>

\* Four points, three, five, a point of three coordinates, a point of one,
\* a coordinate that is a letter, a coordinate that is empty.
PointLists ==
    {FourPoints,
     SubSeq(FourPoints, 1, 3),
     Append(FourPoints, <<Num(1), Num(2)>>),
     [FourPoints EXCEPT ![2] = <<Num(268), Num(12), Num(0)>>],
     [FourPoints EXCEPT ![3] = <<Num(268)>>],
     [FourPoints EXCEPT ![1] = <<Junk("a"), Num(12)>>],
     [FourPoints EXCEPT ![4] = <<Num(70), Junk("")>>]}

\* Text fields as written: one pair of quotes; a comma inside; quotes of
\* the other kind next to the pair; quotes of the same kind next to the
\* pair; a leading and a trailing quote of different kinds.
TextFields == {"'Hello'", "'a, 5'", "'\"q\"'", "''x''", "'x\""}

\* The last field: absent, or a number in [0,1] as written and its value.
NoField == [some |-> FALSE, tok |-> "", val |-> 0]
ConfFields == {NoField,
               [some |-> TRUE, tok |-> "0.5", val |-> 5000],
               [some |-> TRUE, tok |-> "0.0", val |-> 0]}

WrittenLines ==
    {[kind |-> "line", open |-> o, points |-> ps, text |-> t, conf |-> c] :
        o \in {"(", "["}, ps \in PointLists, t \in TextFields, c \in ConfFields}

RECURSIVE JoinWith(_, _)
JoinWith(ss, sep) ==
    IF ss = <<>> THEN ""
    ELSE IF Len(ss) = 1 THEN Head(ss)
    ELSE Head(ss) \o sep \o JoinWith(Tail(ss), sep)

WritePoint(pt) == "[" \o JoinWith([i \in 1..Len(pt) |-> pt[i].tok], ", ") \o "]"

WriteBBox(ps) == "[" \o JoinWith([i \in 1..Len(ps) |-> WritePoint(ps[i])], ", ") \o "]"

\* What follows the bbox and its comma.
Remainder(d) == d.text \o (IF d.conf.some THEN ", " \o d.conf.tok ELSE "")

WriteLine(d) ==
    d.open \o WriteBBox(d.points) \o ", " \o Remainder(d)
           \o (IF d.open = "(" THEN ")" ELSE "]")

\* The line of the tool that follows a written line.
FollowItem == [kind |-> "std", bbox |-> BoxB, text |-> "Hello World", conf |-> 9543]

InitLine ==
    /\ \E d \in WrittenLines :
          \/ p_src = <<d>> /\ p_output = WriteLine(d) \o "\n"
          \/ p_src = <<d, FollowItem>>
             /\ p_output = WriteLine(d) \o "\n" \o PyLine(FollowItem) \o "\n"
    /\ p_idx = 1
    /\ p_lines = <<>>
    /\ ResolveIdle /\ LangIdle /\ HomeIdle /\ AppIdle

NextLine == ParseNextLine

SpecLine == InitLine /\ [][NextLine]_vars

(***************************************************************************)
(* SpecLang: parse_languages on every string of at most MaxLangLen         *)
(* characters of LangAlphabet, and on the strings of the unit tests.       *)
(***************************************************************************)
LangAlphabet == {"e", "n", ",", FullWidthComma, " ", ";", FullWidthSemicolon, "\t"}

LangExamples == {"ch_sim,en", "ch_sim^en", "ch_sim en", " , ; ^ ", "en,, ,fr", "en,en"}

InitLang ==
    /\ l_raw \in StringsUpTo(LangAlphabet, MaxLangLen) \cup LangExamples
    /\ l_out = None
    /\ ResolveIdle /\ ParseIdle /\ HomeIdle /\ AppIdle

CallParseLanguages ==
    /\ ~l_out.some
    /\ l_out' = Some(parse_languages(l_raw))
    /\ UNCHANGED <<l_raw, resolveVars, parseVars, homeVars, appVars>>

NextLang == CallParseLanguages

SpecLang == InitLang /\ [][NextLang]_vars

(***************************************************************************)
(* SpecHome: expand_home_dir on every path of at most MaxPathLen           *)
(* characters of PathAlphabet and on the paths of the unit test, with HOME *)
(* unset, empty or set.                                                    *)
(***************************************************************************)
PathAlphabet == {"~", "/", "m"}

PathExamples == {"~/models", "/tmp/models"}

HomeValues == {None, Some(""), Some("/home/u")}

InitHome ==
    /\ h_path \in StringsUpTo(PathAlphabet, MaxPathLen) \cup PathExamples
    /\ h_out = None
    /\ home \in HomeValues
    /\ RunIdle /\ ParseIdle /\ LangIdle /\ AppIdle

CallExpandHomeDir ==
    /\ ~h_out.some
    /\ h_out' = Some(expand_home_dir(h_path, home))
    /\ UNCHANGED <<h_path, resolveVars, parseVars, langVars, appVars>>

NextHome == CallExpandHomeDir

SpecHome == InitHome /\ [][NextHome]_vars

(***************************************************************************)
(* SpecResolve: check_easyocr_available, one probe per step, for every     *)
(* configured path of ConfiguredExes and every behaviour of the commands   *)
(* a probe can run.                                                        *)
(***************************************************************************)
ConfiguredExes == {"", "/opt/ocr", "python3"}

\* Every command some probe site can run for some configured path.
Commands ==
    {SiteCommand(site, "") : site \in {"path_easyocr", "path_python3", "path_python"}}
    \cup {SiteCommand(site, exe) : site \in {"cfg_direct", "cfg_module"},
                                    exe \in ConfiguredExes \ {""}}

InitResolve ==
    /\ settings \in {[DefaultSettings EXCEPT !.easyocr_exe = exe] : exe \in ConfiguredExes}
    /\ env \in [Commands -> ProbeOutcomes]
    /\ op = "check"
    /\ pc = "start"
    /\ image_path = "" /\ home = None /\ probes = <<>> /\ resolved = None
    /\ argv = <<>> /\ output = None /\ result = None
    /\ ParseIdle /\ LangIdle /\ HomeIdle /\ AppIdle

NextResolve ==
    \/ ResolveEnter
    \/ ProbeConfiguredDirect
    \/ ProbeConfiguredModule
    \/ ProbePathEasyocr
    \/ ProbePathPython3
    \/ ProbePathPython
    \/ CheckReturn

SpecResolve == InitResolve /\ [][NextResolve]_vars

(***************************************************************************)
(* run_ocr_sync (ocr.rs 113-224)                                           *)
(***************************************************************************)
\* A faulty variant: the bool formatted by Rust (b.to_string()).
bool_token_Lowercase(b) == IF b THEN "true" ELSE "false"

\* if b { "True" } else { "False" }
bool_token(b) == IF b THEN "True" ELSE "False"

\* format!("{:.4}", x)
fmt4(v) == ToString(v \div Scale) \o "." \o Pad4(v % Scale)

\* A faulty variant: a model directory under HOME is passed when none is
\* configured.
build_args_DefaultDirectoryUnderHome(prefix_args, st, img, hm) ==
    prefix_args
    \o <<"-l">> \o parse_languages(st.languages)
    \o <<"-f", img,
         "--gpu", bool_token(st.gpu),
         "--workers", ToString(st.workers),
         "--decoder", decoder_as_str(st.decoder),
         "--beamWidth", ToString(st.beam_width),
         "--batch_size", ToString(st.batch_size),
         "--text_threshold", fmt4(st.text_threshold),
         "--low_text", fmt4(st.low_text),
         "--link_threshold", fmt4(st.link_threshold),
         "--contrast_ths", fmt4(st.contrast_ths),
         "--adjust_contrast", fmt4(st.adjust_contrast),
         "--min_size", ToString(st.min_size),
         "--paragraph", bool_token(st.paragraph),
         "--quantize", bool_token(st.quantize),
         "--add_margin", fmt4(st.add_margin),
         "--detail", "1">>
    \o <<"--model_storage_directory",
         expand_home_dir(IF st.model_storage_directory # ""
                         THEN st.model_storage_directory ELSE "~/.EasyOCR", hm)>>

\* Lines 136-189: the arguments given to Command::new(exe).
build_args(prefix_args, st, img, hm) ==
    prefix_args
    \o <<"-l">> \o parse_languages(st.languages)
    \o <<"-f", img,
         "--gpu", bool_token(st.gpu),
         "--workers", ToString(st.workers),
         "--decoder", decoder_as_str(st.decoder),
         "--beamWidth", ToString(st.beam_width),
         "--batch_size", ToString(st.batch_size),
         "--text_threshold", fmt4(st.text_threshold),
         "--low_text", fmt4(st.low_text),
         "--link_threshold", fmt4(st.link_threshold),
         "--contrast_ths", fmt4(st.contrast_ths),
         "--adjust_contrast", fmt4(st.adjust_contrast),
         "--min_size", ToString(st.min_size),
         "--paragraph", bool_token(st.paragraph),
         "--quantize", bool_token(st.quantize),
         "--add_margin", fmt4(st.add_margin),
         "--detail", "1">>
    \o (IF st.model_storage_directory # ""
        THEN <<"--model_storage_directory", expand_home_dir(st.model_storage_directory, hm)>>
        ELSE <<>>)

OcrResult(ls, err) == [lines |-> ls, error |-> err]

InstallHint == "\n\nMake sure EasyOCR is installed:\n  pip install easyocr"

\* Lines 117-130: resolution failed.
not_found_result(configured_exe) ==
    LET tried == IF configured_exe = ""
                 THEN "'easyocr' and 'python -m easyocr.cli'"
                 ELSE "'" \o configured_exe \o "'"
    IN  OcrResult(<<>>, Some("EasyOCR command not found (tried " \o tried \o ")." \o InstallHint))

\* A faulty variant: the diagnostic does not say which program was tried.
spawn_failure_result_NoProgram(exe, e) ==
    OcrResult(<<>>, Some("Failed to run EasyOCR: " \o e \o InstallHint))

\* Lines 197-205: cmd.output() returned Err(e).
spawn_failure_result(exe, e) ==
    OcrResult(<<>>, Some("Failed to run '" \o exe \o "': " \o e \o InstallHint))

\* A faulty variant: stdout parsed although the status is a failure.
exit_failure_result_ParsesStdout(stderr, stdout) ==
    OcrResult(parse_easyocr_output(stdout),
              Some("EasyOCR exited with error:\n" \o stderr \o "\n" \o stdout))

\* A faulty variant: stdout is put before stderr.
exit_failure_result_StdoutFirst(stderr, stdout) ==
    OcrResult(<<>>, Some("EasyOCR exited with error:\n" \o stdout \o "\n" \o stderr))

\* Lines 208-215: the process exited with a status that is not success.
exit_failure_result(stderr, stdout) ==
    OcrResult(<<>>, Some("EasyOCR exited with error:\n" \o stderr \o "\n" \o stdout))

\* A faulty variant: the parsed records are not returned.
success_result_DropsRecords(stdout) == OcrResult(<<>>, None)

\* A faulty variant: a line that is not a record makes the run fail.
success_result_FailsOnSkippedLine(stdout) ==
    LET parsed == parse_easyocr_output(stdout)
    IN  IF Len(parsed) < Len(FilterNonEmpty(MapTrim(lines(stdout))))
        THEN OcrResult(parsed, Some("unparsable output line"))
        ELSE OcrResult(parsed, None)

\* Lines 217-223: the process exited with status zero.
success_result(stdout) == OcrResult(parse_easyocr_output(stdout), None)

\* ---- what cmd.output() can return
LogItem == [kind |-> "noise", raw |-> "Using CPU. Note: This module is much faster with a GPU."]
StdItem == [kind |-> "std", bbox |-> BoxA, text |-> "Hello World", conf |-> 9543]
ParaItem == [kind |-> "para", bbox |-> BoxB, text |-> "a, 5"]

\* The items the tool prints in a run.
RunSrcs == {<<>>, <<LogItem>>, <<StdItem>>, <<LogItem, StdItem, ParaItem>>}

Stderrs == {"", "Traceback (most recent call last): boom\n"}

ExitCodes == {0, 1}

SpawnErrors == {"No such file or directory (os error 2)"}

Outputs ==
    {[kind |-> "err", error |-> e] : e \in SpawnErrors}
    \cup {[kind |-> "ok", code |-> c, stdout |-> PyPrint(src), stderr |-> se, src |-> src] :
             c \in ExitCodes, src \in RunSrcs, se \in Stderrs}

RunNotFound ==
    /\ op = "run"
    /\ pc = "unresolved"
    /\ result' = Some(not_found_result(settings.easyocr_exe))
    /\ pc' = "done"
    /\ UNCHANGED <<settings, image_path, home, env, op, probes, resolved, argv, output>>
    /\ UNCHANGED <<parseVars, langVars, homeVars, appVars>>

\* Lines 134-195: build the command and run it to its end.
RunSpawn ==
    /\ op = "run"
    /\ pc = "resolved"
    /\ argv' = build_args(resolved.val.args, settings, image_path, home)
    /\ \E o \in Outputs : output' = Some(o)
    /\ pc' = "output"
    /\ UNCHANGED <<settings, image_path, home, env, op, probes, resolved, result>>
    /\ UNCHANGED <<parseVars, langVars, homeVars, appVars>>

RunSpawnFailed ==
    /\ pc = "output"
    /\ output.val.kind = "err"
    /\ result' = Some(spawn_failure_result(resolved.val.program, output.val.error))
    /\ pc' = "done"
    /\ UNCHANGED <<settings, image_path, home, env, op, probes, resolved, argv, output>>
    /\ UNCHANGED <<parseVars, langVars, homeVars, appVars>>

\* A faulty variant: after a failing exit the tool is run again.
RunExitFailure_Retries ==
    /\ pc = "output"
    /\ output.val.kind = "ok"
    /\ output.val.code # 0
    /\ output' = None
    /\ pc' = "resolved"
    /\ UNCHANGED <<settings, image_path, home, env, op, probes, resolved, argv, result>>
    /\ UNCHANGED <<parseVars, langVars, homeVars, appVars>>

RunExitFailure ==
    /\ pc = "output"
    /\ output.val.kind = "ok"
    /\ output.val.code # 0
    /\ result' = Some(exit_failure_result(output.val.stderr, output.val.stdout))
    /\ pc' = "done"
    /\ UNCHANGED <<settings, image_path, home, env, op, probes, resolved, argv, output>>
    /\ UNCHANGED <<parseVars, langVars, homeVars, appVars>>

RunExitSuccess ==
    /\ pc = "output"
    /\ output.val.kind = "ok"
    /\ output.val.code = 0
    /\ result' = Some(success_result(output.val.stdout))
    /\ pc' = "done"
    /\ UNCHANGED <<settings, image_path, home, env, op, probes, resolved, argv, output>>
    /\ UNCHANGED <<parseVars, langVars, homeVars, appVars>>

(***************************************************************************)
(* Spec: one recognition run (run_ocr_sync), from resolution to the        *)
(* OcrResult, for the settings of RunSettings.                             *)
(***************************************************************************)
RunLanguages == {"en", "", "ch_sim,en", "en,en"}

RunDirectories == {"", "~/models", "/data/models"}

\* The default settings, or every flag and number of them changed.
RunProfiles ==
    {DefaultSettings,
     [DefaultSettings EXCEPT !.gpu = TRUE, !.workers = 4, !.decoder = "BeamSearch",
                             !.beam_width = 10, !.batch_size = 8, !.min_size = 5,
                             !.text_threshold = 6543, !.low_text = 3000,
                             !.link_threshold = 10000, !.contrast_ths = 0,
                             !.adjust_contrast = 7500, !.paragraph = TRUE,
                             !.quantize = FALSE, !.add_margin = 25000]}

RunSettings ==
    {[p EXCEPT !.easyocr_exe = exe, !.languages = l, !.model_storage_directory = d] :
        p \in RunProfiles, exe \in ConfiguredExes, l \in RunLanguages, d \in RunDirectories}

\* The machines of a run: at most one command answers --help with status
\* zero, and the others cannot be spawned.
RunEnvs ==
    {e \in [Commands -> {"exit0", "nospawn"}] : Cardinality({c \in Commands : e[c] = "exit0"}) <= 1}

Init ==
    /\ settings \in RunSettings
    /\ image_path = "/tmp/easyocr_gui_tmp.png"
    /\ home \in {None, Some("/home/u")}
    /\ env \in RunEnvs
    /\ op = "run"
    /\ pc = "start"
    /\ probes = <<>> /\ resolved = None /\ argv = <<>> /\ output = None /\ result = None
    /\ ParseIdle /\ LangIdle /\ HomeIdle /\ AppIdle

Next ==
    \/ ResolveEnter
    \/ ProbeConfiguredDirect
    \/ ProbeConfiguredModule
    \/ ProbePathEasyocr
    \/ ProbePathPython3
    \/ ProbePathPython
    \/ RunNotFound
    \/ RunSpawn
    \/ RunSpawnFailed
    \/ RunExitFailure
    \/ RunExitSuccess

Spec == Init /\ [][Next]_vars

(***************************************************************************)
(* The asynchronous entry points (ocr.rs 84-111) and EasyOcrApp (app.rs):  *)
(* one thread and one mpsc channel per availability check or recognition   *)
(* run, polled by the GUI thread once per frame.                           *)
(***************************************************************************)
MaxWorkers == 2

\* resolve_easyocr_cmd as one call: the probe sites in the order of the
\* code, on a machine e that does not change during the call.
RECURSIVE ResolveFrom(_, _, _)
ResolveFrom(site, configured_exe, e) ==
    LET c == SiteCommand(site, configured_exe)
    IN  IF probe_cmd(c.program, c.args, e) THEN Some(c)
        ELSE IF OnProbeFail(site) = "unresolved" THEN None
        ELSE ResolveFrom(OnProbeFail(site), configured_exe, e)

\* A faulty variant: the first candidate is returned without a probe, as
\* a remembered result would be.
resolve_easyocr_cmd_NoProbe(configured_exe, e) ==
    Some(SiteCommand(FirstSite(configured_exe), configured_exe))

resolve_easyocr_cmd(configured_exe, e) == ResolveFrom(FirstSite(configured_exe), configured_exe, e)

\* resolve_easyocr_cmd(easyocr_exe).is_some()
check_easyocr_available(easyocr_exe, e) == resolve_easyocr_cmd(easyocr_exe, e).some

\* ---- std::sync::mpsc
\* mpsc::channel(): an unbounded queue; `received` counts the values the
\* receiver has taken out.
NewChannel == [buf |-> <<>>, rx_alive |-> TRUE, received |-> 0]

\* Sender::send never blocks: the value is queued while the Receiver
\* exists, and handed back in an Err (which the workers ignore) when not.
send(ch, v) == IF ch.rx_alive THEN [ch EXCEPT !.buf = Append(@, v)] ELSE ch

\* The Receiver rx goes out of scope (0: there was none); what is queued
\* is freed with it.
drop_rx(chs, rx) ==
    IF rx = 0 THEN chs ELSE [chs EXCEPT ![rx].rx_alive = FALSE, ![rx].buf = <<>>]

\* Receiver::try_recv returned Ok(Head(ch.buf)).
took(ch) == [ch EXCEPT !.buf = Tail(@), !.received = @ + 1]

\* ---- the image files
TmpPath == "/tmp/easyocr_gui_tmp.png"

UserFiles == {"/img/a.png"}

\* The images: image 1 shows the text "Hello World", image 2 the text
\* "a, 5".  The user's file holds image 1.
UserFileImage == 1

PastedImages == {1, 2}

ImageText(img) == IF img = 1 THEN "Hello World" ELSE "a, 5"

\* The image the file at `path` holds when the temp file holds `tmp`.
ImageAt(path, tmp) == IF path = TmpPath THEN tmp ELSE UserFileImage

\* What the tool prints for an image.
ImageItems(img) == <<LogItem, [kind |-> "std", bbox |-> BoxA, text |-> ImageText(img), conf |-> 9543]>>

\* What cmd.output() can return when the file given with -f holds img.
ToolOutcomes(img) ==
    {[kind |-> "err", error |-> e] : e \in SpawnErrors}
    \cup {[kind |-> "ok", code |-> 1, stdout |-> "", src |-> <<>>,
           stderr |-> "Traceback (most recent call last): boom\n"]}
    \cup {[kind |-> "ok", code |-> 0, stdout |-> PyPrint(ImageItems(img)),
           src |-> ImageItems(img), stderr |-> ""]}

\* ---- the workers
\* check_easyocr_async (ocr.rs 86-93): the thread owns exe.to_string().
CheckWorker(easyocr_exe) ==
    [kind |-> "check", exe |-> Some(easyocr_exe), settings |-> None, image_path |-> None,
     image_at_call |-> 0, pc |-> "spawned", resolved |-> None, argv |-> <<>>,
     tool |-> None, image_read |-> 0, result |-> None, sends |-> 0, sent |-> "no"]

\* run_ocr_async (ocr.rs 97-111): the thread owns image_path.to_owned() and
\* settings.clone(); image_at_call is the image the file held at the call.
RunWorker(path, st, img) ==
    [kind |-> "run", exe |-> None, settings |-> Some(st), image_path |-> Some(path),
     image_at_call |-> img, pc |-> "spawned", resolved |-> None, argv |-> <<>>,
     tool |-> None, image_read |-> 0, result |-> None, sends |-> 0, sent |-> "no"]

\* The OcrResult of run_ocr_sync once cmd.output() returned o for command c.
run_result(c, o) ==
    IF o.kind = "err" THEN spawn_failure_result(c.program, o.error)
    ELSE IF o.code # 0 THEN exit_failure_result(o.stderr, o.stdout)
    ELSE success_result(o.stdout)

\* The thread of a check: check_easyocr_available(&exe) (ocr.rs 90).
WorkerCheck(w) ==
    /\ workers[w].kind = "check"
    /\ workers[w].pc = "spawned"
    /\ LET r == resolve_easyocr_cmd(workers[w].exe.val, env)
       IN  workers' = [workers EXCEPT ![w].resolved = r,
                                      ![w].result = Some(check_easyocr_available(workers[w].exe.val, env)),
                                      ![w].pc = "computed"]
    /\ UNCHANGED <<app_settings, app_image, ocr_state, ocr_result_text, setup_status, setup_rx,
                   show_setup_dialog, channels, tmp_png>>
    /\ UNCHANGED <<resolveVars, parseVars, langVars, homeVars>>

\* The thread of a run: run_ocr_sync(&path, &settings) (ocr.rs 105); the
\* tool reads the file named by -f when it runs.
WorkerRun(w) ==
    /\ workers[w].kind = "run"
    /\ workers[w].pc = "spawned"
    /\ LET st == workers[w].settings.val
           path == workers[w].image_path.val
           r == resolve_easyocr_cmd(st.easyocr_exe, env)
           img == ImageAt(path, tmp_png)
       IN  IF ~r.some
           THEN workers' = [workers EXCEPT ![w].result = Some(not_found_result(st.easyocr_exe)),
                                           ![w].pc = "computed"]
           ELSE \E o \in ToolOutcomes(img) :
                  workers' = [workers EXCEPT ![w].resolved = r,
                                             ![w].argv = build_args(r.val.args, st, path, home),
                                             ![w].tool = Some(o),
                                             ![w].image_read = IF o.kind = "ok" THEN img ELSE 0,
                                             ![w].result = Some(run_result(r.val, o)),
                                             ![w].pc = "computed"]
    /\ UNCHANGED <<app_settings, app_image, ocr_state, ocr_result_text, setup_status, setup_rx,
                   show_setup_dialog, channels, tmp_png>>
    /\ UNCHANGED <<resolveVars, parseVars, langVars, homeVars>>

\* The thread after its one send: the closure has returned and what it
\* owned is dropped; `sent` is what tx.send returned.
Ended(worker, delivered) ==
    [kind |-> worker.kind, exe |-> None, settings |-> None, image_path |-> None,
     image_at_call |-> 0, pc |-> "ended", resolved |-> None, argv |-> <<>>,
     tool |-> None, image_read |-> 0, result |-> None,
     sends |-> worker.sends + 1, sent |-> IF delivered THEN "ok" ELSE "err"]

\* A faulty variant: the thread stays where it can send again.
WorkerSend_Again(w) ==
    /\ workers[w].pc = "computed"
    /\ channels' = [channels EXCEPT ![w] = send(@, workers[w].result.val)]
    /\ workers' = [workers EXCEPT ![w].sends = @ + 1,
                                  ![w].sent = IF channels[w].rx_alive THEN "ok" ELSE "err"]
    /\ UNCHANGED <<app_settings, app_image, ocr_state, ocr_result_text, setup_status, setup_rx,
                   show_setup_dialog, tmp_png>>
    /\ UNCHANGED <<resolveVars, parseVars, langVars, homeVars>>

\* let _ = tx.send(..) (ocr.rs 91, 106-107), after which the closure and
\* with it the thread ends.
WorkerSend(w) ==
    /\ workers[w].pc = "computed"
    /\ channels' = [channels EXCEPT ![w] = send(@, workers[w].result.val)]
    /\ workers' = [workers EXCEPT ![w] = Ended(@, channels[w].rx_alive)]
    /\ UNCHANGED <<app_settings, app_image, ocr_state, ocr_result_text, setup_status, setup_rx,
                   show_setup_dialog, tmp_png>>
    /\ UNCHANGED <<resolveVars, parseVars, langVars, homeVars>>

\* ---- EasyOcrApp
\* format!("{:.1}", confidence * 100.0)
fmt_percent(conf) ==
    LET tenths == (conf + 5) \div 10
    IN  ToString(tenths \div 10) \o "." \o ToString(tenths % 10)

\* poll_ocr lines 231-236: one "<text> (<confidence>%)" per record, joined
\* by line breaks.
RECURSIVE result_text(_)
result_text(ls) ==
    IF ls = <<>> THEN ""
    ELSE Head(ls).text \o " (" \o fmt_percent(Head(ls).confidence) \o "%)"
         \o (IF Len(ls) > 1 THEN "\n" ELSE "") \o result_text(Tail(ls))

\* A faulty variant: the receiver is kept after its result was taken.
PollSetup_KeepsReceiver ==
    /\ setup_status = "Checking"
    /\ setup_rx.some
    /\ channels[setup_rx.val].buf # <<>>
    /\ LET available == Head(channels[setup_rx.val].buf)
       IN  /\ setup_status' = IF available THEN "Ready" ELSE "Missing"
           /\ show_setup_dialog' = ~available
    /\ channels' = [channels EXCEPT ![setup_rx.val] = took(@)]
    /\ UNCHANGED <<app_settings, app_image, ocr_state, ocr_result_text, setup_rx, workers, tmp_png>>
    /\ UNCHANGED <<resolveVars, parseVars, langVars, homeVars>>

\* update lines 721-737: the availability check is polled.
PollSetup ==
    /\ setup_status = "Checking"
    /\ setup_rx.some
    /\ channels[setup_rx.val].buf # <<>>
    /\ LET available == Head(channels[setup_rx.val].buf)
       IN  /\ setup_status' = IF available THEN "Ready" ELSE "Missing"
           /\ show_setup_dialog' = ~available
    /\ setup_rx' = None
    /\ channels' = drop_rx([channels EXCEPT ![setup_rx.val] = took(@)], setup_rx.val)
    /\ UNCHANGED <<app_settings, app_image, ocr_state, ocr_result_text, workers, tmp_png>>
    /\ UNCHANGED <<resolveVars, parseVars, langVars, homeVars>>

\* A faulty variant: a poll that finds no result reports an error.
PollOcr_EmptyIsError ==
    /\ ocr_state.tag = "Running"
    /\ IF channels[ocr_state.rx].buf = <<>>
       THEN /\ ocr_state' = [tag |-> "Error", rx |-> 0, err |-> "no result"]
            /\ channels' = drop_rx(channels, ocr_state.rx)
            /\ UNCHANGED ocr_result_text
       ELSE /\ LET res == Head(channels[ocr_state.rx].buf)
               IN  IF res.error.some
                   THEN /\ ocr_state' = [tag |-> "Error", rx |-> 0, err |-> res.error.val]
                        /\ UNCHANGED ocr_result_text
                   ELSE /\ ocr_result_text' = result_text(res.lines)
                        /\ ocr_state' = [tag |-> "Done", rx |-> 0, err |-> ""]
            /\ channels' = drop_rx([channels EXCEPT ![ocr_state.rx] = took(@)], ocr_state.rx)
    /\ UNCHANGED <<app_settings, app_image, setup_status, setup_rx, show_setup_dialog,
                   workers, tmp_png>>
    /\ UNCHANGED <<resolveVars, parseVars, langVars, homeVars>>

\* poll_ocr (app.rs 214-245).
PollOcr ==
    /\ ocr_state.tag = "Running"
    /\ channels[ocr_state.rx].buf # <<>>
    /\ LET res == Head(channels[ocr_state.rx].buf)
       IN  IF res.error.some
           THEN /\ ocr_state' = [tag |-> "Error", rx |-> 0, err |-> res.error.val]
                /\ UNCHANGED ocr_result_text
           ELSE /\ ocr_result_text' = result_text(res.lines)
                /\ ocr_state' = [tag |-> "Done", rx |-> 0, err |-> ""]
    /\ channels' = drop_rx([channels EXCEPT ![ocr_state.rx] = took(@)], ocr_state.rx)
    /\ UNCHANGED <<app_settings, app_image, setup_status, setup_rx, show_setup_dialog,
                   workers, tmp_png>>
    /\ UNCHANGED <<resolveVars, parseVars, langVars, homeVars>>

\* The Run button (app.rs 396-411) and action_run_ocr (196-203).
ActionRunOcr ==
    /\ app_image.some
    /\ ocr_state.tag # "Running"
    /\ Len(workers) < MaxWorkers
    /\ workers' = Append(workers, RunWorker(app_image.val, app_settings,
                                            ImageAt(app_image.val, tmp_png)))
    /\ channels' = Append(channels, NewChannel)
    /\ ocr_state' = [tag |-> "Running", rx |-> Len(workers) + 1, err |-> ""]
    /\ ocr_result_text' = ""
    /\ UNCHANGED <<app_settings, app_image, setup_status, setup_rx, show_setup_dialog, tmp_png>>
    /\ UNCHANGED <<resolveVars, parseVars, langVars, homeVars>>

\* load_image_from_path (app.rs 86-108), from the file dialog or a drop, for
\* a file that decodes.
LoadImageFromPath ==
    /\ \E path \in UserFiles : app_image' = Some(path)
    /\ ocr_state' = IdleState
    /\ channels' = drop_rx(channels, ocr_state.rx)
    /\ ocr_result_text' = ""
    /\ UNCHANGED <<app_settings, setup_status, setup_rx, show_setup_dialog, workers, tmp_png>>
    /\ UNCHANGED <<resolveVars, parseVars, langVars, homeVars>>

\* A faulty variant: the run in progress and its receiver are kept.
LoadImageFromRgba_KeepsRun ==
    /\ \E img \in PastedImages : tmp_png' = img
    /\ app_image' = Some(TmpPath)
    /\ ocr_result_text' = ""
    /\ UNCHANGED <<app_settings, ocr_state, channels, setup_status, setup_rx, show_setup_dialog,
                   workers>>
    /\ UNCHANGED <<resolveVars, parseVars, langVars, homeVars>>

\* load_image_from_rgba (app.rs 110-136), from the clipboard or a
\* screenshot: the pixels are written to the one temp file first.
LoadImageFromRgba ==
    /\ \E img \in PastedImages : tmp_png' = img
    /\ app_image' = Some(TmpPath)
    /\ ocr_state' = IdleState
    /\ channels' = drop_rx(channels, ocr_state.rx)
    /\ ocr_result_text' = ""
    /\ UNCHANGED <<app_settings, setup_status, setup_rx, show_setup_dialog, workers>>
    /\ UNCHANGED <<resolveVars, parseVars, langVars, homeVars>>

\* The settings the model draws: the defaults, or another tool path and
\* another language.
AppSettings ==
    {DefaultSettings,
     [DefaultSettings EXCEPT !.easyocr_exe = "/opt/ocr", !.languages = "fr"]}

\* The widgets of draw_settings_tab (app.rs 527-669).
EditSettings ==
    /\ \E st \in AppSettings : st # app_settings /\ app_settings' = st
    /\ UNCHANGED <<app_image, ocr_state, ocr_result_text, setup_status, setup_rx,
                   show_setup_dialog, workers, channels, tmp_png>>
    /\ UNCHANGED <<resolveVars, parseVars, langVars, homeVars>>

\* The reset button (app.rs 698-701).
ResetSettings ==
    /\ app_settings' = DefaultSettings
    /\ UNCHANGED <<app_image, ocr_state, ocr_result_text, setup_status, setup_rx,
                   show_setup_dialog, workers, channels, tmp_png>>
    /\ UNCHANGED <<resolveVars, parseVars, langVars, homeVars>>

\* The setup button of the toolbar (app.rs 379-393).
OpenSetupDialog ==
    /\ setup_status = "Missing"
    /\ show_setup_dialog' = TRUE
    /\ UNCHANGED <<app_settings, app_image, ocr_state, ocr_result_text, setup_status, setup_rx,
                   workers, channels, tmp_png>>
    /\ UNCHANGED <<resolveVars, parseVars, langVars, homeVars>>

\* The check-again button of the setup dialog (app.rs 311-328).
RecheckSetup ==
    /\ show_setup_dialog
    /\ setup_status # "Checking"
    /\ Len(workers) < MaxWorkers
    /\ workers' = Append(workers, CheckWorker(app_settings.easyocr_exe))
    /\ channels' = Append(drop_rx(channels, IF setup_rx.some THEN setup_rx.val ELSE 0), NewChannel)
    /\ setup_rx' = Some(Len(workers) + 1)
    /\ setup_status' = "Checking"
    /\ UNCHANGED <<app_settings, app_image, ocr_state, ocr_result_text, show_setup_dialog, tmp_png>>
    /\ UNCHANGED <<resolveVars, parseVars, langVars, homeVars>>

\* A faulty variant: closing the dialog marks the tool as available.
CloseSetupDialog_MarksReady ==
    /\ show_setup_dialog
    /\ show_setup_dialog' = FALSE
    /\ setup_status' = "Ready"
    /\ UNCHANGED <<app_settings, app_image, ocr_state, ocr_result_text, setup_rx,
                   workers, channels, tmp_png>>
    /\ UNCHANGED <<resolveVars, parseVars, langVars, homeVars>>

\* The continue button and the close box of the dialog (app.rs 331-333,
\* 345-347).
CloseSetupDialog ==
    /\ show_setup_dialog
    /\ show_setup_dialog' = FALSE
    /\ UNCHANGED <<app_settings, app_image, ocr_state, ocr_result_text, setup_status, setup_rx,
                   workers, channels, tmp_png>>
    /\ UNCHANGED <<resolveVars, parseVars, langVars, homeVars>>

\* ---- the machine
\* The tool is not installed, or `easyocr` is on the PATH and /opt/ocr runs.
AppEnvs ==
    {[c \in Commands |-> "nospawn"],
     [c \in Commands |-> IF c \in {Cmd("easyocr", NoArgs), Cmd("/opt/ocr", NoArgs)}
                         THEN "exit0" ELSE "nospawn"]}

\* The tool is installed or removed while the program runs.
EnvChange ==
    /\ \E e \in AppEnvs : e # env /\ env' = e
    /\ UNCHANGED <<settings, image_path, home, op, pc, probes, resolved, argv, output, result>>
    /\ UNCHANGED <<parseVars, langVars, homeVars, appVars>>

(***************************************************************************)
(* SpecApp: the program from EasyOcrApp::new on.                           *)
(***************************************************************************)
InitApp ==
    /\ app_settings \in AppSettings
    /\ app_image = None
    /\ ocr_state = IdleState
    /\ ocr_result_text = ""
    /\ setup_status = "Checking"
    /\ setup_rx = Some(1)
    /\ show_setup_dialog = FALSE
    /\ workers = <<CheckWorker(app_settings.easyocr_exe)>>
    /\ channels = <<NewChannel>>
    /\ tmp_png = 0
    /\ env \in AppEnvs
    /\ home = Some("/home/u")
    /\ settings = DefaultSettings /\ image_path = "" /\ op = "none" /\ pc = "idle"
    /\ probes = <<>> /\ resolved = None /\ argv = <<>> /\ output = None /\ result = None
    /\ ParseIdle /\ LangIdle /\ HomeIdle

NextApp ==
    \/ PollSetup
    \/ PollOcr
    \/ ActionRunOcr
    \/ LoadImageFromPath
    \/ LoadImageFromRgba
    \/ EditSettings
    \/ ResetSettings
    \/ OpenSetupDialog
    \/ RecheckSetup
    \/ CloseSetupDialog
    \/ \E w \in DOMAIN workers : WorkerCheck(w)
    \/ \E w \in DOMAIN workers : WorkerRun(w)
    \/ \E w \in DOMAIN workers : WorkerSend(w)
    \/ EnvChange

SpecApp == InitApp /\ [][NextApp]_vars

(***************************************************************************)
(* SpecAppLive: the operations in progress and their polls, under the      *)
(* scheduling the code relies on.  A thread that can take its next step    *)
(* takes it (the operating system runs every thread, and the subprocesses  *)
(* it waits for terminate); update asks for another frame while the status *)
(* is Checking or the state is Running (app.rs 734, 741-743), so a poll    *)
(* that can take a result takes it.  The user may load an image file,      *)
(* start runs and ask for re-checks, under no obligation; the settings and *)
(* the machine are any of those of SpecApp and stay as they are.           *)
(***************************************************************************)
\* The next step of thread w, if there is a thread w.
WorkerStep(w) ==
    /\ w \in DOMAIN workers
    /\ (WorkerCheck(w) \/ WorkerRun(w) \/ WorkerSend(w))

NextAppLive ==
    \/ PollSetup
    \/ PollOcr
    \/ ActionRunOcr
    \/ LoadImageFromPath
    \/ RecheckSetup
    \/ \E w \in DOMAIN workers : WorkerCheck(w)
    \/ \E w \in DOMAIN workers : WorkerRun(w)
    \/ \E w \in DOMAIN workers : WorkerSend(w)

SpecAppLive ==
    /\ InitApp /\ [][NextAppLive]_vars
    /\ WF_vars(PollSetup)
    /\ WF_vars(PollOcr)
    /\ \A w \in 1..MaxWorkers : WF_vars(WorkerStep(w))

(***************************************************************************)
(* SpecRuns: image loads, run requests, polls and the threads of the runs, *)
(* from a frame on in which the first availability check has been answered *)
(* and its thread has ended (it is not kept, so that MaxWorkers threads    *)
(* remain for the runs).  The settings and the machine are any of those of *)
(* SpecApp and stay as they are.                                           *)
(***************************************************************************)
InitRuns ==
    /\ app_settings \in AppSettings
    /\ app_image = None
    /\ ocr_state = IdleState
    /\ ocr_result_text = ""
    /\ setup_status = "Ready"
    /\ setup_rx = None
    /\ show_setup_dialog = FALSE
    /\ workers = <<>>
    /\ channels = <<>>
    /\ tmp_png = 0
    /\ env \in AppEnvs
    /\ home = Some("/home/u")
    /\ settings = DefaultSettings /\ image_path = "" /\ op = "none" /\ pc = "idle"
    /\ probes = <<>> /\ resolved = None /\ argv = <<>> /\ output = None /\ result = None
    /\ ParseIdle /\ LangIdle /\ HomeIdle

NextRuns ==
    \/ PollOcr
    \/ ActionRunOcr
    \/ LoadImageFromPath
    \/ LoadImageFromRgba
    \/ \E w \in DOMAIN workers : WorkerRun(w)
    \/ \E w \in DOMAIN workers : WorkerSend(w)

SpecRuns == InitRuns /\ [][NextRuns]_vars

(***************************************************************************)
(*                              The claims                                 *)
(***************************************************************************)
IsPrefix(a, b) == Len(a) <= Len(b) /\ SubSeq(b, 1, Len(a)) = a

\* resolve_easyocr_cmd has returned.
Returned == pc \in {"resolved", "unresolved", "done"}

Succeeds(c) == env[c] = "exit0"

PathCandidates ==
    <<Cmd("easyocr", NoArgs), Cmd("python3", ModuleArgs), Cmd("python", ModuleArgs)>>

\* C1: with a non-empty configured path only that path is probed, directly
\* and then as `<path> -m easyocr.cli`; the result is the first of the two
\* that succeeds, None when neither does, and no PATH candidate is probed
\* whatever it would answer.
C1_ConfiguredPathOnly ==
    LET exe == settings.easyocr_exe
        direct == Cmd(exe, NoArgs)
        module == Cmd(exe, ModuleArgs)
    IN  (op = "check" /\ exe # "") =>
          /\ \A i \in 1..Len(probes) : probes[i].program = exe
          /\ IsPrefix(probes, <<direct, module>>)
          /\ Returned =>
               IF Succeeds(direct) THEN resolved = Some(direct) /\ probes = <<direct>>
               ELSE IF Succeeds(module)
                    THEN resolved = Some(module) /\ probes = <<direct, module>>
                    ELSE resolved = None /\ probes = <<direct, module>>

\* A configured path that fails both ways, on a machine where `easyocr` and
\* `python3 -m easyocr.cli` both work: the check has returned false.
C1_Witness ==
    /\ op = "check" /\ pc = "done"
    /\ settings.easyocr_exe = "/opt/ocr"
    /\ Succeeds(PathCandidates[1]) /\ Succeeds(PathCandidates[2])
    /\ probes = <<Cmd("/opt/ocr", NoArgs), Cmd("/opt/ocr", ModuleArgs)>>
    /\ resolved = None
    /\ result = Some(FALSE)

\* The index of the first candidate whose probe exits with status zero, 0 if none.
FirstWorking ==
    IF \E k \in 1..3 : Succeeds(PathCandidates[k])
    THEN CHOOSE k \in 1..3 :
            Succeeds(PathCandidates[k]) /\ \A j \in 1..(k - 1) : ~Succeeds(PathCandidates[j])
    ELSE 0

\* C2: with an empty configured path the probes are `easyocr`, `python3 -m
\* easyocr.cli`, `python -m easyocr.cli` in this order, up to and including
\* the first that exits with status zero, which is the result; the result is
\* None exactly when all three fail (exit non-zero or cannot be spawned).
C2_PathCandidatesInOrder ==
    (op = "check" /\ settings.easyocr_exe = "") =>
      /\ IsPrefix(probes, PathCandidates)
      /\ Returned =>
           IF FirstWorking = 0
           THEN resolved = None /\ probes = PathCandidates
           ELSE /\ resolved = Some(PathCandidates[FirstWorking])
                /\ probes = SubSeq(PathCandidates, 1, FirstWorking)

\* `easyocr` cannot be spawned, `python3 -m easyocr.cli` exits non-zero and
\* `python -m easyocr.cli` works: the third candidate is the result.
C2_Witness ==
    /\ op = "check" /\ pc = "done"
    /\ settings.easyocr_exe = ""
    /\ env[PathCandidates[1]] = "nospawn"
    /\ env[PathCandidates[2]] = "exit1"
    /\ Len(probes) = 3
    /\ resolved = Some(Cmd("python", ModuleArgs))
    /\ result = Some(TRUE)

\* C3: an OcrResult never carries both a diagnostic and records.
C3_ErrorHasNoLines ==
    (op = "run" /\ result.some) =>
        (result.val.error.some => result.val.lines = <<>>)

\* The tool printed record lines and exited with a non-zero status.
C3_Witness ==
    /\ op = "run" /\ result.some /\ output.some
    /\ output.val.kind = "ok" /\ output.val.code # 0
    /\ Records(output.val.src) # <<>>
    /\ result.val.error.some
    /\ result.val.lines = <<>>

\* C4 as stated: an outcome without a diagnostic has at least one record.
C4_NoErrorHasLines ==
    (op = "run" /\ result.some) =>
        (~result.val.error.some => result.val.lines # <<>>)

\* C4 as amended: an outcome without a diagnostic has at least one record,
\* unless the tool exited with status zero and printed no record line; then
\* the outcome has neither records nor a diagnostic.
C4_NoErrorHasLinesUnlessNoRecord ==
    (op = "run" /\ result.some /\ ~result.val.error.some) =>
        \/ result.val.lines # <<>>
        \/ /\ output.val.kind = "ok" /\ output.val.code = 0
           /\ Records(output.val.src) = <<>>

\* The tool exited with status zero having printed only a log line.
C4_Witness ==
    /\ op = "run" /\ result.some /\ output.some
    /\ output.val.kind = "ok" /\ output.val.code = 0
    /\ output.val.src = <<LogItem>>
    /\ ~result.val.error.some
    /\ result.val.lines = <<>>

\* The items whose lines the loop has passed, and the records among them.
ItemsDone == SubSeq(p_src, 1, p_idx - 1)
RecordsDone == Records(ItemsDone)

\* The confidence the tool printed for a record (none in paragraph shape).
PrintedConfidence(item) == IF item.kind = "std" THEN item.conf ELSE NoConfidence

\* C5: the records returned are, one for one and in order, the record lines
\* of the output: other lines add nothing and stop nothing, and nothing is
\* sorted or deduplicated.
C5_OneRecordPerRecordLine ==
    p_idx >= 1 =>
      /\ Len(p_lines) = Len(RecordsDone)
      /\ \A i \in 1..Len(p_lines) :
            /\ p_lines[i].bbox = Pixels(RecordsDone[i].bbox)
            /\ p_lines[i].confidence = PrintedConfidence(RecordsDone[i])

\* A malformed line, then a record line: one record, the second line's.
C5_Witness ==
    /\ ParseDone
    /\ Len(p_src) = 2
    /\ p_src[1] = [kind |-> "noise", raw |-> "([[1, 2], [3, 2], [3, 4]], 'x', 0.5)"]
    /\ p_src[2] = [kind |-> "std", bbox |-> BoxA, text |-> "a, 5", conf |-> 9543]
    /\ Len(p_lines) = 1
    /\ p_lines[1].bbox = Pixels(BoxA)

\* C6: a standard-shape line yields its text, quotes removed and commas
\* kept, and its confidence.
C6_StandardTextAndConfidence ==
    p_idx >= 1 =>
      \A i \in 1..Len(RecordsDone) :
          RecordsDone[i].kind = "std" =>
            /\ i <= Len(p_lines)
            /\ p_lines[i].text = RecordsDone[i].text
            /\ p_lines[i].confidence = RecordsDone[i].conf

\* C7: a paragraph-shape line yields its text and the sentinel confidence.
C7_ParagraphTextAndSentinel ==
    p_idx >= 1 =>
      \A i \in 1..Len(RecordsDone) :
          RecordsDone[i].kind = "para" =>
            /\ i <= Len(p_lines)
            /\ p_lines[i].text = RecordsDone[i].text
            /\ p_lines[i].confidence = NoConfidence

\* A character of a language code: no separator and no white space.
IsTokenChar(c) == c \notin LangSeparators /\ c \notin WhiteSpace

RECURSIVE Without(_, _)
Without(s, cs) ==
    IF Len(s) = 0 THEN ""
    ELSE (IF CharAt(s, 1) \in cs THEN "" ELSE CharAt(s, 1)) \o Without(Tail(s), cs)

\* The positions where a token starts: a token character with no token
\* character before it since the last separator.
TokenStarts(raw) ==
    {i \in 1..Len(raw) :
        /\ IsTokenChar(CharAt(raw, i))
        /\ \A j \in 1..(i - 1) :
              (\A k \in j..(i - 1) : CharAt(raw, k) \notin LangSeparators)
                  => ~IsTokenChar(CharAt(raw, j))}

\* C8: the list returned is never empty and holds no empty token; it is
\* <<"ch_sim", "en">> when the input holds no token, and otherwise the
\* trimmed separator-free pieces of the input, in input order.
C8_LanguagesNormalized ==
    l_out.some =>
      LET r == l_out.val
      IN  /\ r # <<>>
          /\ \A i \in 1..Len(r) : r[i] # ""
          /\ IF \A i \in 1..Len(l_raw) : ~IsTokenChar(CharAt(l_raw, i))
             THEN r = <<"ch_sim", "en">>
             ELSE /\ Len(r) = Cardinality(TokenStarts(l_raw))
                  /\ \A i \in 1..Len(r) :
                        /\ \A k \in 1..Len(r[i]) : CharAt(r[i], k) \notin LangSeparators
                        /\ IsTokenChar(CharAt(r[i], 1))
                        /\ IsTokenChar(CharAt(r[i], Len(r[i])))
                  /\ Without(Concat(r), WhiteSpace)
                        = Without(l_raw, LangSeparators \cup WhiteSpace)
          /\ (l_raw = "en,, ,fr" => r = <<"en", "fr">>)
          /\ (l_raw = "ch_sim^en" => r = <<"ch_sim", "en">>)

\* Separators and white space only: the default list is returned.
C8_Witness ==
    /\ l_raw = " ;\t"
    /\ l_out = Some(<<"ch_sim", "en">>)

\* C9: "~" is HOME and "~/<rest>" is HOME/<rest> when HOME is set; any
\* other path, and every path when HOME is unset, is returned unchanged.
C9_HomeExpanded ==
    h_out.some =>
      LET out == h_out.val
      IN  /\ (home.some /\ h_path = "~") => out = home.val
          /\ (home.some /\ StartsWith(h_path, "~/"))
                => out = home.val \o "/" \o SubSeq(h_path, 3, Len(h_path))
          /\ (h_path # "~" /\ ~StartsWith(h_path, "~/")) => out = h_path
          /\ ~home.some => out = h_path

\* "~/models" with HOME=/home/u.
C9_Witness ==
    /\ h_path = "~/models"
    /\ home = Some("/home/u")
    /\ h_out = Some("/home/u/models")

\* The flags after the language list, in the order of the code.
FlagOrder ==
    <<"-f", "--gpu", "--workers", "--decoder", "--beamWidth", "--batch_size",
      "--text_threshold", "--low_text", "--link_threshold", "--contrast_ths",
      "--adjust_contrast", "--min_size", "--paragraph", "--quantize",
      "--add_margin", "--detail">>

FlagIndex(f) == CHOOSE k \in 1..Len(FlagOrder) : FlagOrder[k] = f

PythonBool(b) == IF b THEN "True" ELSE "False"

\* C10: the arguments are the resolved prefix, -l and the languages, then
\* each flag of FlagOrder with one value, in this order, and last
\* --model_storage_directory with the expanded directory exactly when the
\* configured directory is not empty; booleans are True / False.
C10_ArgumentOrder ==
    (op = "run" /\ pc \in {"output", "done"} /\ resolved.some) =>
      LET pre == resolved.val.args
          langs == parse_languages(settings.languages)
          rest == SubSeq(argv, Len(pre) + Len(langs) + 2, Len(argv))
          dir == settings.model_storage_directory
          value(f) == rest[2 * FlagIndex(f)]
      IN  /\ SubSeq(argv, 1, Len(pre)) = pre
          /\ argv[Len(pre) + 1] = "-l"
          /\ SubSeq(argv, Len(pre) + 2, Len(pre) + 1 + Len(langs)) = langs
          /\ Len(rest) = 2 * Len(FlagOrder) + (IF dir # "" THEN 2 ELSE 0)
          /\ \A k \in 1..Len(FlagOrder) : rest[2 * k - 1] = FlagOrder[k]
          /\ value("-f") = image_path
          /\ value("--gpu") = PythonBool(settings.gpu)
          /\ value("--paragraph") = PythonBool(settings.paragraph)
          /\ value("--quantize") = PythonBool(settings.quantize)
          /\ value("--detail") = "1"
          /\ dir # "" =>
               /\ rest[Len(rest) - 1] = "--model_storage_directory"
               /\ rest[Len(rest)] = expand_home_dir(dir, home)

\* A run through `<path> -m easyocr.cli` with the default languages and a
\* model directory under the home directory.
C10_Witness ==
    /\ op = "run" /\ pc = "done" /\ resolved.some
    /\ resolved.val.args = ModuleArgs
    /\ settings.languages = "" /\ settings.gpu
    /\ settings.model_storage_directory = "~/models" /\ home.some
    /\ Len(argv) = 39
    /\ argv[Len(argv)] = "/home/u/models"

\* The tool ran to its end: cmd.output() returned Ok and the run returned.
ToolExited == op = "run" /\ pc = "done" /\ output.some /\ output.val.kind = "ok"

\* C11: after a non-zero exit the outcome has no records, whatever stdout
\* holds, and its diagnostic is the heading, the captured stderr, a line
\* break and the captured stdout, in this order.
C11_ExitFailureDiagnostic ==
    (ToolExited /\ output.val.code # 0) =>
        /\ result.some
        /\ result.val.lines = <<>>
        /\ result.val.error =
             Some("EasyOCR exited with error:\n" \o output.val.stderr \o "\n" \o output.val.stdout)

\* A non-zero exit with a traceback on stderr and two record lines on stdout.
C11_Witness ==
    /\ ToolExited /\ output.val.code # 0
    /\ output.val.stderr # ""
    /\ output.val.src = <<LogItem, StdItem, ParaItem>>
    /\ result.val.lines = <<>>
    /\ StartsWith(result.val.error.val, "EasyOCR exited with error:\nTraceback")

\* C13: after a zero exit the outcome has no diagnostic, and its records are
\* as many as the record lines the tool printed: the other lines of stdout
\* are neither counted nor reported.
C13_ExitSuccessNoDiagnostic ==
    (ToolExited /\ output.val.code = 0) =>
        /\ result.some
        /\ ~result.val.error.some
        /\ Len(result.val.lines) = Len(Records(output.val.src))

\* A zero exit whose stdout holds a log line before two record lines, with
\* a traceback on stderr.
C13_Witness ==
    /\ ToolExited /\ output.val.code = 0
    /\ output.val.src = <<LogItem, StdItem, ParaItem>>
    /\ output.val.stderr # ""
    /\ result.val.error = None
    /\ Len(result.val.lines) = 2

\* C18: a run spawns the tool at most once and only after a resolution that
\* succeeded, sets its outcome once, and stops there: no step follows the
\* return, so no failure is followed by another attempt.
C18_NoRetry ==
    [][/\ pc # "done"
       /\ output' # output => (pc = "resolved" /\ resolved.some /\ ~output.some)
       /\ result' # result => (~result.some /\ pc' = "done")]_vars

\* A run that ended on a spawn failure.
C18_Witness ==
    /\ op = "run" /\ pc = "done"
    /\ output.some /\ output.val.kind = "err"
    /\ result.some /\ result.val.error.some
    /\ argv # <<>>

\* expand_home_dir reads HOME exactly for these paths (ocr.rs 334, 337).
ReadsHome(path) == path = "~" \/ StartsWith(path, "~/")

\* The arguments have been built.
ArgsBuilt == op = "run" /\ pc \in {"output", "done"} /\ resolved.some

\* C20 as stated: the arguments are a function of the settings, the image
\* path and the resolved prefix alone: whatever HOME is, the same arguments.
C20_ArgumentsIndependentOfEnvironment ==
    ArgsBuilt =>
        \A h \in HomeValues :
            argv = build_args(resolved.val.args, settings, image_path, h)

\* C20 as amended: the arguments are a function of the settings, the image
\* path, the resolved prefix and HOME, and HOME matters only when the model
\* directory is ~ or starts with ~/ .
C20_ArgumentsFunctionOfInputsAndHome ==
    ArgsBuilt =>
        \A h \in HomeValues :
            (h = home \/ ~ReadsHome(settings.model_storage_directory)) =>
                argv = build_args(resolved.val.args, settings, image_path, h)

\* A run with a model directory under ~/ in a process without HOME: with
\* HOME set the arguments would differ.
C20_Witness ==
    /\ ArgsBuilt
    /\ settings.model_storage_directory = "~/models"
    /\ home = None
    /\ argv[Len(argv)] = "~/models"
    /\ argv # build_args(resolved.val.args, settings, image_path, Some("/home/u"))

\* C19: every record returned has a confidence in [0,1] (the sentinel is
\* one of them); a printed number outside [0,1] is in no record.
C19_ConfidenceInUnitInterval ==
    \A k \in DOMAIN p_lines :
        \/ p_lines[k].confidence = NoConfidence
        \/ (0 <= p_lines[k].confidence /\ p_lines[k].confidence <= Scale)

\* ---- the workers and the GUI (SpecApp)

\* C12: when cmd.output() fails after a resolution that succeeded, the
\* outcome has no records and a diagnostic holding the program tried and
\* the OS error; the thread's next step is its send, which ends it, and
\* which queues exactly this outcome for the receiver if there still is one.
C12_SpawnFailureDelivered ==
    [][\A w \in DOMAIN workers :
          LET wk == workers[w]
          IN  (wk.kind = "run" /\ wk.pc = "computed" /\ wk.tool.some /\ wk.tool.val.kind = "err") =>
                /\ wk.resolved.some
                /\ wk.result.some
                /\ wk.result.val.lines = <<>>
                /\ wk.result.val.error.some
                /\ Contains(wk.result.val.error.val, "'" \o wk.resolved.val.program \o "'")
                /\ Contains(wk.result.val.error.val, wk.tool.val.error)
                /\ workers'[w] # wk =>
                     /\ workers'[w].pc = "ended"
                     /\ channels[w].rx_alive => channels'[w].buf = <<wk.result.val>>]_vars

\* The GUI has polled the outcome of a run whose tool could not be spawned.
C12_Witness ==
    /\ ocr_state.tag = "Error"
    /\ StartsWith(ocr_state.err, "Failed to run '")
    /\ Contains(ocr_state.err, "No such file or directory (os error 2)")
    /\ \E w \in DOMAIN workers : workers[w].kind = "run" /\ workers[w].sent = "ok"

\* C14: there is one channel per thread; a thread has sent nothing before
\* it ends and has sent once when it has ended; a channel never carries
\* more than one value; a thread that has computed its result can always
\* send; and a send after the receiver was dropped leaves nothing queued.
C14_OneSendPerWorker ==
    /\ Len(channels) = Len(workers)
    /\ \A w \in DOMAIN workers :
          /\ workers[w].sends = (IF workers[w].pc = "ended" THEN 1 ELSE 0)
          /\ Len(channels[w].buf) + channels[w].received <= 1
          /\ workers[w].pc = "computed" => ENABLED WorkerSend(w)
          /\ workers[w].sent = "ok" =>
               (channels[w].rx_alive => Len(channels[w].buf) + channels[w].received = 1)
          /\ workers[w].sent = "err" =>
               (~channels[w].rx_alive /\ channels[w].buf = <<>> /\ channels[w].received = 0)

\* A run's thread ended after another image was loaded: its receiver was
\* gone and its send was discarded.
C14_Witness ==
    \E w \in DOMAIN workers :
        /\ workers[w].kind = "run"
        /\ workers[w].pc = "ended"
        /\ workers[w].sent = "err"
        /\ ocr_state.tag = "Idle"

\* C15: a run's thread builds its arguments from the settings and the path
\* of the call, and the tool reads the image the caller had loaded at the
\* call: the records are those of that image.
C15_WorkerUsesCallTimeInputs ==
    \A w \in DOMAIN workers :
        LET wk == workers[w]
        IN  (wk.kind = "run" /\ wk.pc = "computed" /\ wk.tool.some) =>
              /\ wk.argv = build_args(wk.resolved.val.args, wk.settings.val, wk.image_path.val, home)
              /\ (wk.tool.val.kind = "ok" /\ wk.tool.val.code = 0) =>
                   /\ wk.image_read = wk.image_at_call
                   /\ Len(wk.result.val.lines) = 1
                   /\ wk.result.val.lines[1].text = ImageText(wk.image_at_call)

\* The configured path a thread resolves.
ExeOf(wk) == IF wk.kind = "check" THEN wk.exe.val ELSE wk.settings.val.easyocr_exe

\* The commands resolve_easyocr_cmd can return for a configured path.
CandidatesFor(configured_exe) ==
    IF configured_exe = ""
    THEN {PathCandidates[k] : k \in 1..3}
    ELSE {Cmd(configured_exe, NoArgs), Cmd(configured_exe, ModuleArgs)}

\* C16: whenever a thread computes its result, the result says what the
\* machine answers at that step: a check is true exactly when one of the
\* candidates of its configured path runs, and a run spawns the tool
\* exactly then and reports the tool as not found otherwise; no earlier
\* result is used.
C16_FreshResolution ==
    [][\A w \in DOMAIN workers :
          (workers[w].pc = "spawned" /\ workers'[w].pc = "computed") =>
             LET exe == ExeOf(workers[w])
                 available == \E c \in CandidatesFor(exe) : env[c] = "exit0"
                 wk == workers'[w]
             IN  IF wk.kind = "check"
                 THEN wk.result = Some(available)
                 ELSE /\ wk.tool.some <=> available
                      /\ wk.resolved.some <=> available
                      /\ ~available => wk.result = Some(not_found_result(exe))]_vars

\* The first check found nothing; the tool was installed; the second check
\* of the same session finds it.
C16_Witness ==
    /\ Len(workers) = 2
    /\ workers[1].pc = "ended"
    /\ setup_status = "Checking"
    /\ workers[2].kind = "check"
    /\ workers[2].pc = "computed"
    /\ workers[2].result = Some(TRUE)

\* update lines 721-737 took the result of a check from the channel.
SetupPolled ==
    /\ setup_status = "Checking"
    /\ setup_rx.some
    /\ channels[setup_rx.val].buf # <<>>
    /\ setup_status' = IF Head(channels[setup_rx.val].buf) THEN "Ready" ELSE "Missing"

\* A new check was started and its receiver stored.
CheckStarted ==
    /\ setup_status' = "Checking"
    /\ Len(workers') = Len(workers) + 1
    /\ workers'[Len(workers')].kind = "check"
    /\ workers'[Len(workers')].pc = "spawned"
    /\ setup_rx' = Some(Len(workers'))

\* C17 as stated: the availability state changes only in the step that
\* polls the result of a finished probe.
C17_StatusChangesOnlyWhenPolled ==
    [][setup_status' # setup_status => SetupPolled]_vars

\* C17 as amended: the availability state changes only in the step that
\* polls the result of a finished probe, or, to Checking, in the step that
\* starts a new probe (the check-again button of the setup dialog).
C17_StatusChangesOnlyWhenPolledOrChecking ==
    [][setup_status' # setup_status => (SetupPolled \/ CheckStarted)]_vars

\* The check-again button was pressed: a second check is in flight while
\* the dialog is still shown.
C17_Witness ==
    /\ setup_status = "Checking"
    /\ show_setup_dialog
    /\ Len(workers) = 2
    /\ workers[2].kind = "check"
    /\ setup_rx = Some(2)

\* ---- lines written field by field (SpecLine)

\* The written line the output starts with.
FirstLine == p_src[1]

\* Exactly four points of exactly two numbers each.
FourPairs(ps) ==
    /\ Len(ps) = 4
    /\ \A i \in 1..4 : Len(ps[i]) = 2 /\ ps[i][1].num /\ ps[i][2].num

PointValues(ps) == [i \in 1..Len(ps) |-> [k \in 1..Len(ps[i]) |-> ps[i][k].val]]

\* The first line has been passed and has yielded the first record.
FirstRecordMade ==
    /\ p_idx >= 2
    /\ Len(p_lines) >= 1
    /\ p_lines[1].bbox = PointValues(FirstLine.points)

\* A field without its first and last character when these are the same
\* quote character; the field itself otherwise.
StripOnePair(f) ==
    IF Len(f) >= 2 /\ CharAt(f, 1) \in QuoteChars /\ CharAt(f, 1) = CharAt(f, Len(f))
    THEN SubSeq(f, 2, Len(f) - 1)
    ELSE f

\* C21: the record's text is the text field without one leading and one
\* trailing quote, removed only when both are the same character; every
\* other quote and every comma of the field is kept.
C21_OneMatchingQuotePairStripped ==
    (FirstRecordMade /\ ~(FirstLine.open = "[" /\ FirstLine.conf.some)) =>
        p_lines[1].text = StripOnePair(FirstLine.text)

\* C22: a record of a line in square brackets has the sentinel confidence
\* and the whole remainder after the bbox as its text; a number after the
\* last comma of the remainder is not taken as the confidence.
C22_BracketLineNeverSplit ==
    (FirstRecordMade /\ FirstLine.open = "[") =>
        /\ p_lines[1].confidence = NoConfidence
        /\ p_lines[1].text = StripOnePair(Remainder(FirstLine))

\* C23: no record of a line in parentheses whose last field is a number in
\* [0,1] has the sentinel as its confidence.
C23_SentinelIsNoScore ==
    (FirstRecordMade /\ FirstLine.open = "(" /\ FirstLine.conf.some
       /\ 0 <= FirstLine.conf.val /\ FirstLine.conf.val <= Scale) =>
        p_lines[1].confidence # NoConfidence

\* C24: the first line yields a record only if its bbox is four points of
\* two numbers each, and the record's bbox holds these in order; any other
\* bbox yields no record, and the line after it is parsed all the same.
C24_RecordOnlyFromFourPairs ==
    /\ p_idx = 2 =>
          /\ Len(p_lines) <= 1
          /\ Len(p_lines) = 1 =>
                /\ FourPairs(FirstLine.points)
                /\ p_lines[1].bbox = PointValues(FirstLine.points)
          /\ ~FourPairs(FirstLine.points) => p_lines = <<>>
    /\ p_idx = 3 =>
          /\ Len(p_lines) \in {1, 2}
          /\ p_lines[Len(p_lines)].bbox = Pixels(FollowItem.bbox)
          /\ p_lines[Len(p_lines)].confidence = FollowItem.conf
          /\ ~FourPairs(FirstLine.points) => Len(p_lines) = 1
          /\ Len(p_lines) = 2 => p_lines[1].bbox = PointValues(FirstLine.points)

\* A line of five points is dropped and the line after it is parsed.
C24_Witness ==
    /\ p_idx = 3
    /\ Len(FirstLine.points) = 5
    /\ Len(p_lines) = 1
    /\ p_lines[1].bbox = Pixels(FollowItem.bbox)

\* ---- the language list of a run (Spec)

\* The arguments between -l and -f.
LanguageList ==
    LET first == Len(resolved.val.args) + 2
        f == CHOOSE k \in first..Len(argv) :
                 argv[k] = "-f" /\ \A j \in first..(k - 1) : argv[j] # "-f"
    IN  SubSeq(argv, first, f - 1)

\* The code written from position i on: up to the next separator, without
\* the white space before that separator.
CodeAt(raw, i) ==
    LET stops == {j \in i..Len(raw) : CharAt(raw, j) \in LangSeparators}
        stop == IF stops = {} THEN Len(raw) + 1
                ELSE CHOOSE j \in stops : \A k \in stops : j <= k
        last == CHOOSE k \in i..(stop - 1) :
                    /\ IsTokenChar(CharAt(raw, k))
                    /\ \A m \in (k + 1)..(stop - 1) : ~IsTokenChar(CharAt(raw, m))
    IN  SubSeq(raw, i, last)

\* The codes written in raw, in the order written, repeats included.
CodesWritten(raw) ==
    LET starts == TokenStarts(raw)
        nth(n) == CHOOSE i \in starts : Cardinality({j \in starts : j < i}) = n - 1
    IN  [n \in 1..Cardinality(starts) |-> CodeAt(raw, nth(n))]

ChecksOutstanding == {w \in DOMAIN workers : workers[w].kind = "check" /\ workers[w].pc # "ended"}

SetupConsistent ==
    /\ setup_status = "Checking" <=> setup_rx.some
    /\ setup_rx.some => /\ setup_rx.val \in DOMAIN workers
                        /\ workers[setup_rx.val].kind = "check"
                        /\ channels[setup_rx.val].rx_alive
    /\ Cardinality(ChecksOutstanding) <= 1
    /\ \A w \in DOMAIN workers : workers[w].kind = "check" => channels[w].received <= 1

\* A step that stores a receiver is a re-check requested while the status
\* was not Checking; a step that clears it has taken one probe result.
SetupStep ==
    /\ (setup_rx' # setup_rx /\ setup_rx'.some) =>
          /\ setup_status # "Checking"
          /\ setup_status' = "Checking"
          /\ setup_rx'.val = Len(workers) + 1
          /\ workers' = Append(workers, CheckWorker(app_settings.easyocr_exe))
    /\ (setup_rx.some /\ ~setup_rx'.some) =>
          /\ channels[setup_rx.val].buf # <<>>
          /\ channels'[setup_rx.val].received = channels[setup_rx.val].received + 1
          /\ IF Head(channels[setup_rx.val].buf)
             THEN setup_status' = "Ready" /\ ~show_setup_dialog'
             ELSE setup_status' = "Missing" /\ show_setup_dialog'

\* C28: the status is Checking exactly when a receiver is held; a receiver
\* is stored only by a re-check requested while not Checking, which sets
\* Checking; it is cleared only by receiving a result, which sets Ready and
\* closes the dialog, or sets Missing and opens it; at most one check is
\* outstanding and no result is received twice.
C28_CheckingIffReceiverHeld == []SetupConsistent /\ [][SetupStep]_vars

\* The tool was missing at start and a re-check has found it.
C28_Witness ==
    /\ Len(workers) = 2
    /\ workers[2].kind = "check"
    /\ channels[1].received = 1 /\ channels[2].received = 1
    /\ setup_status = "Ready"
    /\ ~setup_rx.some
    /\ ~show_setup_dialog

\* ---- the run whose outcome is displayed (SpecRuns)

RunWorkers == {w \in DOMAIN workers : workers[w].kind = "run"}

\* The run started last (0: none yet).
LastRun == IF RunWorkers = {} THEN 0 ELSE CHOOSE w \in RunWorkers : \A v \in RunWorkers : v <= w

\* The image the window shows: what the file of app_image holds.
LoadedImage == ImageAt(app_image.val, tmp_png)

\* The result text of a successful run on img.
ShownFor(img) == ImageText(img) \o " (95.4%)"

DisplayFromLastRun ==
    /\ ocr_state.tag = "Running" =>
          /\ app_image.some
          /\ ocr_state.rx = LastRun
          /\ channels[ocr_state.rx].rx_alive
          /\ workers[LastRun].pc # "ended" =>
                /\ workers[LastRun].image_path = app_image
                /\ workers[LastRun].image_at_call = LoadedImage
          /\ (workers[LastRun].pc = "computed" /\ workers[LastRun].tool.some
                /\ workers[LastRun].tool.val.kind = "ok") =>
                    workers[LastRun].image_read = LoadedImage
    /\ \A w \in RunWorkers :
          ~(ocr_state.tag = "Running" /\ ocr_state.rx = w) =>
              ~channels[w].rx_alive /\ channels[w].buf = <<>>
    /\ ocr_state.tag = "Done" => app_image.some /\ ocr_result_text = ShownFor(LoadedImage)
    /\ ocr_state.tag = "Error" => app_image.some /\ ocr_result_text = ""

RunStep ==
    /\ (Len(workers') > Len(workers) /\ workers'[Len(workers')].kind = "run") =>
          /\ ocr_state.tag # "Running"
          /\ ocr_state' = [tag |-> "Running", rx |-> Len(workers'), err |-> ""]
    /\ (ocr_state' # ocr_state /\ ocr_state'.tag \in {"Done", "Error"}) =>
          /\ ocr_state.tag = "Running"
          /\ ocr_state.rx = LastRun
          /\ channels[LastRun].buf # <<>>
          /\ LET res == Head(channels[LastRun].buf)
             IN  IF res.error.some
                 THEN ocr_state'.tag = "Error" /\ ocr_state'.err = res.error.val
                 ELSE ocr_state'.tag = "Done" /\ ocr_result_text' = result_text(res.lines)
    /\ (ocr_state.tag = "Running" /\ (app_image' # app_image \/ tmp_png' # tmp_png)) =>
          /\ ocr_state' = IdleState
          /\ ~channels'[ocr_state.rx].rx_alive

\* C26: what is displayed is the outcome of the run started last, made for
\* the image that is loaded: no run starts while one is Running, a load
\* during a run discards its receiver, and the outcome of a run that was
\* left behind never reaches the display, whenever its thread ends.
C26_DisplayFromLastRun == []DisplayFromLastRun /\ [][RunStep]_vars

\* The first run, on image 1, was left behind by a paste of image 2 and
\* still holds its result; the second run has ended and its result is shown.
C26_Witness ==
    /\ Len(workers) = 2
    /\ workers[1].kind = "run" /\ workers[1].pc = "computed" /\ workers[1].image_read = 1
    /\ workers[2].kind = "run" /\ workers[2].pc = "ended"
    /\ tmp_png = 2
    /\ ocr_state.tag = "Done"
    /\ ocr_result_text = ShownFor(2)

\* ---- polling (SpecAppLive)

\* A step taken while the operation in progress has sent nothing: the
\* operation stays as it is, unless a load ends the run; no outcome and no
\* diagnostic appears.
PollFindsNothing ==
    /\ (ocr_state.tag = "Running" /\ channels[ocr_state.rx].buf = <<>>) =>
          /\ ocr_state'.tag \notin {"Done", "Error"}
          /\ ocr_state'.tag = "Running" =>
                ocr_state' = ocr_state /\ ocr_result_text' = ocr_result_text
    /\ (setup_status = "Checking" /\ channels[setup_rx.val].buf = <<>>) =>
          /\ setup_status' = "Checking"
          /\ setup_rx' = setup_rx

\* The run of thread w is the one in progress.
RunningOn(w) == ocr_state.tag = "Running" /\ ocr_state.rx = w

\* The result of thread w was taken and is displayed, or its receiver was
\* discarded because an image was loaded.
RunLeft(w) ==
    /\ w \in DOMAIN channels
    /\ \/ ocr_state.tag \in {"Done", "Error"} /\ channels[w].received = 1
       \/ channels[w].received = 0 /\ ~channels[w].rx_alive

\* C27: a poll that finds no result changes nothing and reports nothing;
\* a run in progress ends in Done or Error as long as its receiver is
\* polled, and a check in progress ends in Ready or Missing.
C27_PollingIsPatientAndEnds ==
    /\ [][PollFindsNothing]_vars
    /\ \A w \in 1..MaxWorkers : RunningOn(w) ~> RunLeft(w)
    /\ (setup_status = "Checking") ~> (setup_status \in {"Ready", "Missing"})

\* The first check and a run have both ended by a result taken in a poll.
C27_Witness ==
    /\ Len(workers) = 2
    /\ workers[1].kind = "check" /\ workers[2].kind = "run"
    /\ channels[1].received = 1 /\ channels[2].received = 1
    /\ setup_status = "Ready"
    /\ ocr_state.tag = "Done"

=============================================================================
